---- MODULE Spec2Model ----
(***************************************************************************)
(* Red-black tree of python/lib/red_black_tree.py and priority queue of   *)
(* python/lib/priority_queue.py as state machines.                         *)
(*                                                                         *)
(* The heap of _Node objects is an arena: node 0 is the shared sentinel    *)
(* (self._nil), nodes 1..MaxNodes are the _Node objects of the tree.       *)
(* Every field of every node (the sentinel included) is state, so a write  *)
(* through a reference that happens to be the sentinel lands in the        *)
(* sentinel's fields, as in the code.  Object identities are arbitrary     *)
(* (the code only compares them with "is"), so a node that left the tree   *)
(* gives its identity back; if the sentinel's parent field still refers to *)
(* the removed object, that object is kept under the identity Gone.        *)
(*                                                                         *)
(* The priority queue is its heap array, its item->index map, the next     *)
(* value of its insertion counter and its sign; qref is the reference the  *)
(* runs keep in lock-step with it.                                         *)
(***************************************************************************)
EXTENDS Integers, Sequences, FiniteSets, TLC

\* ---------------------------------------------------------------- bounds
\* Spec: keys and values of the set/remove runs checked against the reference
MaxKey == 4
MaxVal == 2
\* SpecQ: keys of the runs that interleave the read-only operations
QKey == 6
\* SpecDeep: keys of the runs of any length from the empty tree
DeepKey == 8
\* SpecDeep: keys of the runs that start from a tall tree holding 1..TallKey,
\* and the number of operations of such a run
TallKey == 11
MaxOps == 5

\* SpecPQ: items and priorities of the priority-queue runs of any length from
\* the empty queue, and the number of successful pushes of such a run (the
\* insertion counter never exceeds it)
MaxItem == 3
MaxPri == 2
MaxPush == 3
\* SpecPQ: items of the runs that start from a queue holding 1..BigItem, and
\* the number of operations of such a run
BigItem == 7
BigOps == 2

Larger(a, b) == IF a > b THEN a ELSE b
\* One identity per key.
MaxNodes == Larger(Larger(MaxKey, QKey), Larger(DeepKey, TallKey))

Keys == 1..MaxKey
Values == 1..MaxVal
QKeys == 1..QKey
DeepKeys == 1..DeepKey
TallKeys == 1..TallKey
Items == 1..MaxItem
Pris == 1..MaxPri
BigItems == 1..BigItem
\* the least priority, and one above all those of a big queue
BigPris == {1, BigItem + 1}
\* budget of a run of unlimited length
NoLimit == MaxOps + 1
Nil == 0
None == 0
RealIds == 1..MaxNodes
\* The removed node object that only the sentinel's parent field refers to.
Gone == MaxNodes + 1
NodeIds == 0..Gone

RED == TRUE
BLACK == FALSE

VARIABLES key, value, color, left, right, parent, root, size, live, ref, res,
          budget, heap, position, counter, sign, qref

vars == <<key, value, color, left, right, parent, root, size, live, ref, res,
          budget, heap, position, counter, sign, qref>>

\* The tree object and its nodes as one value the operators below transform.
\* err is the exception (if any) an operator has raised.
Tree == [key |-> key, value |-> value, color |-> color, left |-> left,
         right |-> right, parent |-> parent, root |-> root, size |-> size,
         live |-> live, err |-> "none", nil_written |-> FALSE]

\* ------------------------------------------------------------ construction
EmptyTree == [key |-> [n \in NodeIds |-> None],
              value |-> [n \in NodeIds |-> None],
              color |-> [n \in NodeIds |-> BLACK],
              left |-> [n \in NodeIds |-> Nil],
              right |-> [n \in NodeIds |-> Nil],
              parent |-> [n \in NodeIds |-> Nil],
              root |-> Nil, size |-> 0, live |-> {}, err |-> "none",
              nil_written |-> FALSE]

\* ------------------------------------------------------------------ lookup
RECURSIVE SearchFrom(_, _, _)
SearchFrom(t, cur, k) ==
    IF cur = Nil THEN Nil
    ELSE IF k = t.key[cur] THEN cur
    ELSE IF k < t.key[cur] THEN SearchFrom(t, t.left[cur], k)
    ELSE SearchFrom(t, t.right[cur], k)

_search_node(t, k) == SearchFrom(t, t.root, k)

__contains__(t, k) == _search_node(t, k) # Nil

__len__(t) == t.size

__getitem__(t, k) ==
    LET node == _search_node(t, k)
    IN IF node = Nil THEN [out |-> "KeyError", val |-> None]
       ELSE [out |-> "ok", val |-> t.value[node]]

\* ------------------------------------------------------- field assignments
\* Statements are operators from tree to tree; each reads the tree it is
\* given, so a sequence of statements is their composition.
\* nil_written records a write that gives a field of the sentinel other than
\* its parent a new value; no read of the tree depends on it.
SetLeft(t, n, v) ==
    [t EXCEPT !.left[n] = v,
              !.nil_written = @ \/ (n = Nil /\ v # t.left[Nil])]

SetRight(t, n, v) ==
    [t EXCEPT !.right[n] = v,
              !.nil_written = @ \/ (n = Nil /\ v # t.right[Nil])]

SetParent(t, n, v) == [t EXCEPT !.parent[n] = v]

SetColor(t, n, c) ==
    [t EXCEPT !.color[n] = c,
              !.nil_written = @ \/ (n = Nil /\ c # t.color[Nil])]

SetRoot(t, v) == [t EXCEPT !.root = v]

\* raise e: the tree as it is when the exception leaves the call
Raise(t, e) == [t EXCEPT !.err = e]

Raised(t) == t.err # "none"

\* --------------------------------------------------------------- rotations
\* x.right = y.left; if y.left is not nil: y.left.parent = x
MoveInnerLeft(t, x, y) ==
    IF t.left[y] # Nil
    THEN SetParent(SetRight(t, x, t.left[y]), t.left[y], x)
    ELSE SetRight(t, x, t.left[y])

\* y.parent = x.parent, and y put in x's slot of x's parent (left tried first)
LiftOverLeft(t, x, y) ==
    IF t.parent[x] = Nil THEN SetRoot(SetParent(t, y, t.parent[x]), y)
    ELSE IF x = t.left[t.parent[x]]
    THEN SetLeft(SetParent(t, y, t.parent[x]), t.parent[x], y)
    ELSE SetRight(SetParent(t, y, t.parent[x]), t.parent[x], y)

\* y.left = x; x.parent = y
HangLeft(t, x, y) == SetParent(SetLeft(t, y, x), x, y)

_rotate_left(t, x) ==
    IF t.right[x] = Nil THEN Raise(t, "RuntimeError")
    ELSE HangLeft(LiftOverLeft(MoveInnerLeft(t, x, t.right[x]), x, t.right[x]),
                  x, t.right[x])

\* y.left = x.right; if x.right is not nil: x.right.parent = y
MoveInnerRight(t, y, x) ==
    IF t.right[x] # Nil
    THEN SetParent(SetLeft(t, y, t.right[x]), t.right[x], y)
    ELSE SetLeft(t, y, t.right[x])

\* x.parent = y.parent, and x put in y's slot of y's parent (right tried first)
LiftOverRight(t, y, x) ==
    IF t.parent[y] = Nil THEN SetRoot(SetParent(t, x, t.parent[y]), x)
    ELSE IF y = t.right[t.parent[y]]
    THEN SetRight(SetParent(t, x, t.parent[y]), t.parent[y], x)
    ELSE SetLeft(SetParent(t, x, t.parent[y]), t.parent[y], x)

\* x.right = y; y.parent = x
HangRight(t, y, x) == SetParent(SetRight(t, x, y), y, x)

_rotate_right(t, y) ==
    IF t.left[y] = Nil THEN Raise(t, "RuntimeError")
    ELSE HangRight(LiftOverRight(MoveInnerRight(t, y, t.left[y]), y, t.left[y]),
                   y, t.left[y])

\* ------------------------------------------------------------ insert fix-up
\* The state of the loop of _fix_insert: the tree and z.
AtZ(t, z) == [t |-> t, z |-> z]

\* (mutant) Case 1 leaves the grandparent's colour as it is
InsertCase1_GrandparentAsIs(t, z, y) ==
    AtZ(SetColor(SetColor(t, t.parent[z], BLACK), y, BLACK),
        t.parent[t.parent[z]])

\* Case 1: z.parent.color = BLACK; y.color = BLACK;
\* z.parent.parent.color = RED; z = z.parent.parent
InsertCase1(t, z, y) ==
    AtZ(SetColor(SetColor(SetColor(t, t.parent[z], BLACK), y, BLACK),
                 t.parent[t.parent[z]], RED),
        t.parent[t.parent[z]])

\* Case 2: if z is z.parent.right: z = z.parent; rotate left at z
InsertCase2Left(t, z) ==
    IF z = t.right[t.parent[z]]
    THEN AtZ(_rotate_left(t, t.parent[z]), t.parent[z])
    ELSE AtZ(t, z)

\* Case 2 (mirror)
InsertCase2Right(t, z) ==
    IF z = t.left[t.parent[z]]
    THEN AtZ(_rotate_right(t, t.parent[z]), t.parent[z])
    ELSE AtZ(t, z)

\* z.parent.color = BLACK; z.parent.parent.color = RED
InsertRecolor3(t, z) ==
    SetColor(SetColor(t, t.parent[z], BLACK), t.parent[t.parent[z]], RED)

\* (mutant) Case 3 rotates the grandparent the wrong way
InsertCase3Left_RotateLeft(s) ==
    IF Raised(s.t) THEN s
    ELSE AtZ(_rotate_left(InsertRecolor3(s.t, s.z),
                          s.t.parent[s.t.parent[s.z]]), s.z)

\* Case 3: recolour, rotate right at the grandparent
InsertCase3Left(s) ==
    IF Raised(s.t) THEN s
    ELSE AtZ(_rotate_right(InsertRecolor3(s.t, s.z),
                           s.t.parent[s.t.parent[s.z]]), s.z)

\* (mutant) Case 3 (mirror) recolours and leaves out the rotation
InsertCase3Right_NoRotation(s) ==
    IF Raised(s.t) THEN s
    ELSE AtZ(InsertRecolor3(s.t, s.z), s.z)

\* Case 3 (mirror)
InsertCase3Right(s) ==
    IF Raised(s.t) THEN s
    ELSE AtZ(_rotate_left(InsertRecolor3(s.t, s.z),
                          s.t.parent[s.t.parent[s.z]]), s.z)

\* One pass through the body of the while loop of _fix_insert.
FixInsertBody(t, z) ==
    IF t.parent[z] = t.left[t.parent[t.parent[z]]]
    THEN IF t.color[t.right[t.parent[t.parent[z]]]] = RED
         THEN InsertCase1(t, z, t.right[t.parent[t.parent[z]]])
         ELSE InsertCase3Left(InsertCase2Left(t, z))
    ELSE IF t.color[t.left[t.parent[t.parent[z]]]] = RED
         THEN InsertCase1(t, z, t.left[t.parent[t.parent[z]]])
         ELSE InsertCase3Right(InsertCase2Right(t, z))

RECURSIVE FixInsertLoop(_, _)
FixInsertNext(s) == FixInsertLoop(s.t, s.z)

\* while z.parent.color == RED: ...
FixInsertLoop(t, z) ==
    IF Raised(t) \/ t.color[t.parent[z]] # RED THEN t
    ELSE FixInsertNext(FixInsertBody(t, z))

\* self._root.color = BLACK
BlackenRoot(t) == IF Raised(t) THEN t ELSE SetColor(t, t.root, BLACK)

\* (mutant) the red-red repair loop is left out
_fix_insert_NoLoop(t, z) == BlackenRoot(t)

\* (mutant) the root is not forced BLACK after the loop
_fix_insert_RootAsIs(t, z) == FixInsertLoop(t, z)

_fix_insert(t, z) == BlackenRoot(FixInsertLoop(t, z))

\* ---------------------------------------------------------------- insertion
\* The descent of _bst_insert: the node holding k, or the node to attach to.
RECURSIVE Descend(_, _, _, _)
Descend(t, par, cur, k) ==
    IF cur = Nil THEN [found |-> FALSE, node |-> par]
    ELSE IF k = t.key[cur] THEN [found |-> TRUE, node |-> cur]
    ELSE IF k < t.key[cur] THEN Descend(t, cur, t.left[cur], k)
    ELSE Descend(t, cur, t.right[cur], k)

\* Identities _Node(...) can return: those of no node of the tree.
FreeIds(t) == {n \in RealIds : n \notin t.live}

\* The identity of a new object is arbitrary among the free ones (identities
\* are only ever compared with "is"); the one numbered like the key is taken
\* when it is free, the lowest free one otherwise.
NewId(t, k) ==
    IF k \in FreeIds(t) THEN k
    ELSE CHOOSE n \in FreeIds(t) : \A m \in FreeIds(t) : n <= m

\* new_node = _Node(key, value, RED, nil, nil, parent)
NewNode(t, k, v, par, new_node) ==
    [t EXCEPT !.key[new_node] = k, !.value[new_node] = v,
              !.color[new_node] = RED, !.left[new_node] = Nil,
              !.right[new_node] = Nil, !.parent[new_node] = par,
              !.live = @ \cup {new_node},
              !.nil_written = @ \/ new_node = Nil]

\* (mutant) the existing key keeps its old value
ReplaceValue_Skip(t, cur, v) == t

\* cur.value = value, for a key that already exists
ReplaceValue(t, cur, v) ==
    [t EXCEPT !.value[cur] = v, !.nil_written = @ \/ cur = Nil]

\* (mutant) the comparison that picks the child slot is inverted
Attach_WrongSide(t, par, k, new_node) ==
    IF par = Nil THEN SetRoot(t, new_node)
    ELSE IF k > t.key[par] THEN SetLeft(t, par, new_node)
    ELSE SetRight(t, par, new_node)

\* Link new_node under parent (or make it the root)
Attach(t, par, k, new_node) ==
    IF par = Nil THEN SetRoot(t, new_node)
    ELSE IF k < t.key[par] THEN SetLeft(t, par, new_node)
    ELSE SetRight(t, par, new_node)

\* self._size += 1
CountNew(t) == [t EXCEPT !.size = @ + 1]

\* (mutant) the new node is linked and counted but the fix-up is not run
InsertNew_NoFix(t, k, v, par, new_node) ==
    CountNew(Attach(NewNode(t, k, v, par, new_node), par, k, new_node))

InsertNew(t, k, v, par, new_node) ==
    _fix_insert(CountNew(Attach(NewNode(t, k, v, par, new_node),
                                par, k, new_node)), new_node)

\* (mutant) an overwrite is treated like a new node: it is recoloured RED and
\* the insert fix-up runs from it
InsertAt_FixAnyway(t, k, v, d) ==
    IF d.found
    THEN _fix_insert(SetColor(ReplaceValue(t, d.node, v), d.node, RED), d.node)
    ELSE InsertNew(t, k, v, d.node, NewId(t, k))

InsertAt(t, k, v, d) ==
    IF d.found THEN ReplaceValue(t, d.node, v)
    ELSE InsertNew(t, k, v, d.node, NewId(t, k))

_bst_insert(t, k, v) == InsertAt(t, k, v, Descend(t, Nil, t.root, k))

__setitem__(t, k, v) == _bst_insert(t, k, v)

\* ------------------------------------------------------- minimum / maximum
RECURSIVE LeftMost(_, _)
LeftMost(t, node) ==
    IF t.left[node] # Nil THEN LeftMost(t, t.left[node]) ELSE node

RECURSIVE RightMost(_, _)
RightMost(t, node) ==
    IF t.right[node] # Nil THEN RightMost(t, t.right[node]) ELSE node

_minimum_node(t, start) ==
    IF start = Nil THEN [out |-> "ValueError", node |-> Nil]
    ELSE [out |-> "ok", node |-> LeftMost(t, start)]

\* (mutant) no check for the empty subtree: the walk starts at the sentinel
_maximum_node_NoCheck(t, start) == [out |-> "ok", node |-> RightMost(t, start)]

_maximum_node(t, start) ==
    IF start = Nil THEN [out |-> "ValueError", node |-> Nil]
    ELSE [out |-> "ok", node |-> RightMost(t, start)]

\* node.key of the node found, or the exception of the search for it
KeyOf(t, m) ==
    [out |-> m.out, val |-> IF m.out = "ok" THEN t.key[m.node] ELSE None]

\* (mutant) the root's key is returned without walking down to the left
min_key_NoWalk(t) ==
    KeyOf(t, [out |-> _minimum_node(t, t.root).out, node |-> t.root])

min_key(t) == KeyOf(t, _minimum_node(t, t.root))

max_key(t) == KeyOf(t, _maximum_node(t, t.root))

\* ------------------------------------------------------------ delete fix-up
\* The state of the loop of _fix_delete: the tree and x.
AtX(t, x) == [t |-> t, x |-> x]

\* (mutant) Case 1 runs whatever the colour of the sibling
DeleteCase1Left_Always(t, x) ==
    _rotate_left(SetColor(SetColor(t, t.right[t.parent[x]], BLACK),
                          t.parent[x], RED), t.parent[x])

\* Case 1: if w.color == RED: w.color = BLACK; x.parent.color = RED;
\* rotate left at x.parent   (w is x.parent.right)
DeleteCase1Left(t, x) ==
    IF t.color[t.right[t.parent[x]]] = RED
    THEN _rotate_left(SetColor(SetColor(t, t.right[t.parent[x]], BLACK),
                               t.parent[x], RED), t.parent[x])
    ELSE t

\* Case 3: if w.right.color == BLACK: w.left.color = BLACK; w.color = RED;
\* rotate right at w
DeleteCase3Left(t, w) ==
    IF t.color[t.right[w]] = BLACK
    THEN _rotate_right(SetColor(SetColor(t, t.left[w], BLACK), w, RED), w)
    ELSE t

\* Case 4: w.color = x.parent.color; x.parent.color = BLACK;
\* w.right.color = BLACK; rotate left at x.parent
DeleteRotate4Left(t, x, w) ==
    _rotate_left(SetColor(SetColor(SetColor(t, w, t.color[t.parent[x]]),
                                   t.parent[x], BLACK), t.right[w], BLACK),
                 t.parent[x])

\* x = self._root
ToRoot(t, x) == AtX(t, IF Raised(t) THEN x ELSE t.root)

\* Case 4 with w = x.parent.right as it is after Case 3
DeleteCase4Left(t, x) ==
    IF Raised(t) THEN AtX(t, x)
    ELSE ToRoot(DeleteRotate4Left(t, x, t.right[t.parent[x]]), x)

\* (mutant) Case 2 colours x RED, not the sibling
DeleteCases234Left_PaintX(t, x, w) ==
    IF t.color[t.left[w]] = BLACK /\ t.color[t.right[w]] = BLACK
    THEN AtX(SetColor(t, x, RED), t.parent[x])
    ELSE DeleteCase4Left(DeleteCase3Left(t, w), x)

\* Cases 2, 3 and 4 for the sibling w
DeleteCases234Left(t, x, w) ==
    IF t.color[t.left[w]] = BLACK /\ t.color[t.right[w]] = BLACK
    THEN AtX(SetColor(t, w, RED), t.parent[x])
    ELSE DeleteCase4Left(DeleteCase3Left(t, w), x)

\* the cases that follow Case 1, with w = x.parent.right as it is by then
DeleteAfter1Left(t, x) ==
    IF Raised(t) THEN AtX(t, x)
    ELSE DeleteCases234Left(t, x, t.right[t.parent[x]])

\* The mirror image: w is x.parent.left
DeleteCase1Right(t, x) ==
    IF t.color[t.left[t.parent[x]]] = RED
    THEN _rotate_right(SetColor(SetColor(t, t.left[t.parent[x]], BLACK),
                                t.parent[x], RED), t.parent[x])
    ELSE t

DeleteCase3Right(t, w) ==
    IF t.color[t.left[w]] = BLACK
    THEN _rotate_left(SetColor(SetColor(t, t.right[w], BLACK), w, RED), w)
    ELSE t

DeleteRotate4Right(t, x, w) ==
    _rotate_right(SetColor(SetColor(SetColor(t, w, t.color[t.parent[x]]),
                                    t.parent[x], BLACK), t.left[w], BLACK),
                  t.parent[x])

DeleteCase4Right(t, x) ==
    IF Raised(t) THEN AtX(t, x)
    ELSE ToRoot(DeleteRotate4Right(t, x, t.left[t.parent[x]]), x)

\* (mutant) the mirrored Case 2 goes on from the sibling, not from x.parent
DeleteCases234Right_ToSibling(t, x, w) ==
    IF t.color[t.right[w]] = BLACK /\ t.color[t.left[w]] = BLACK
    THEN AtX(SetColor(t, w, RED), w)
    ELSE DeleteCase4Right(DeleteCase3Right(t, w), x)

DeleteCases234Right(t, x, w) ==
    IF t.color[t.right[w]] = BLACK /\ t.color[t.left[w]] = BLACK
    THEN AtX(SetColor(t, w, RED), t.parent[x])
    ELSE DeleteCase4Right(DeleteCase3Right(t, w), x)

DeleteAfter1Right(t, x) ==
    IF Raised(t) THEN AtX(t, x)
    ELSE DeleteCases234Right(t, x, t.left[t.parent[x]])

\* One pass through the body of the while loop of _fix_delete.
FixDeleteBody(t, x) ==
    IF x = t.left[t.parent[x]]
    THEN DeleteAfter1Left(DeleteCase1Left(t, x), x)
    ELSE DeleteAfter1Right(DeleteCase1Right(t, x), x)

RECURSIVE FixDeleteLoop(_, _)
FixDeleteNext(s) == FixDeleteLoop(s.t, s.x)

\* while x is not self._root and x.color == BLACK: ...
FixDeleteLoop(t, x) ==
    IF Raised(t) \/ ~(x # t.root /\ t.color[x] = BLACK) THEN AtX(t, x)
    ELSE FixDeleteNext(FixDeleteBody(t, x))

\* x.color = BLACK
BlackenX(s) == IF Raised(s.t) THEN s.t ELSE SetColor(s.t, s.x, BLACK)

\* (mutant) the double-black repair loop is left out
_fix_delete_NoLoop(t, x) == BlackenX(AtX(t, x))

_fix_delete(t, x) == BlackenX(FixDeleteLoop(t, x))

\* ----------------------------------------------------------------- deletion
\* v put in u's slot of u's parent (or made the root)
PutInSlot(t, u, v) ==
    IF t.parent[u] = Nil THEN SetRoot(t, v)
    ELSE IF u = t.left[t.parent[u]] THEN SetLeft(t, t.parent[u], v)
    ELSE SetRight(t, t.parent[u], v)

\* (mutant) the parent of the sentinel is left as it is
AdoptParent_RealOnly(t, u, v) ==
    IF v = Nil THEN t ELSE SetParent(t, v, t.parent[u])

\* v.parent = u.parent, also when v is the sentinel
AdoptParent(t, u, v) == SetParent(t, v, t.parent[u])

_transplant(t, u, v) == AdoptParent(PutInSlot(t, u, v), u, v)

\* (mutant) the right subtree taken over from z keeps z as its parent
TakeRight_ParentAsIs(t, z, y) == SetRight(t, y, t.right[z])

\* y.right = z.right; y.right.parent = y
TakeRight(t, z, y) == SetParent(SetRight(t, y, t.right[z]), t.right[z], y)

\* if y.parent is z: x.parent = y
\* else: transplant(y, y.right); y.right = z.right; y.right.parent = y
DetachSuccessor(t, z, y) ==
    IF t.parent[y] = z THEN SetParent(t, t.right[y], y)
    ELSE TakeRight(_transplant(t, y, t.right[y]), z, y)

\* (mutant) the successor keeps its own colour
TakeLeftAndColor_OwnColor(t, z, y) ==
    SetParent(SetLeft(t, y, t.left[z]), t.left[z], y)

\* y.left = z.left; y.left.parent = y; y.color = z.color
TakeLeftAndColor(t, z, y) ==
    SetColor(SetParent(SetLeft(t, y, t.left[z]), t.left[z], y), y, t.color[z])

\* The two-children branch of _delete_node: the successor node y is linked
\* into z's position and takes z's colour.
RelinkSuccessor(t, z, y) ==
    TakeLeftAndColor(_transplant(DetachSuccessor(t, z, y), z, y), z, y)

\* (mutant) the size is not decremented
CountGone_Skip(t) == t

\* self._size -= 1
CountGone(t) == [t EXCEPT !.size = @ - 1]

\* What _delete_node hands to _fix_delete: the tree with y spliced out, the
\* node x that took y's place, and y's original colour.
Spliced(t, x, c) == [t |-> CountGone(t), x |-> x, y_original_color |-> c]

\* (mutant) the colour that decides on the fix-up is the one y takes from z
SpliceTwo_ColorOfZ(t, z, y) ==
    Spliced(RelinkSuccessor(t, z, y), t.right[y], t.color[z])

\* z has two children: y is its in-order successor, x = y.right
SpliceTwo(t, z, y) == Spliced(RelinkSuccessor(t, z, y), t.right[y], t.color[y])

\* _delete_node up to the call of _fix_delete
SpliceOut(t, z) ==
    IF t.left[z] = Nil
    THEN Spliced(_transplant(t, z, t.right[z]), t.right[z], t.color[z])
    ELSE IF t.right[z] = Nil
    THEN Spliced(_transplant(t, z, t.left[z]), t.left[z], t.color[z])
    ELSE SpliceTwo(t, z, _minimum_node(t, t.right[z]).node)

\* if y_original_color == BLACK: self._fix_delete(x)
FixIfBlack(s) ==
    IF s.y_original_color = BLACK THEN _fix_delete(s.t, s.x) ELSE s.t

_delete_node(t, z) == FixIfBlack(SpliceOut(t, z))

\* The node object z is unreferenced by the tree once _delete_node returns;
\* at most the sentinel's parent field still refers to it.  No code path
\* reads a field of that object again, so its fields are not kept.
Discard(t, z) ==
    [t EXCEPT !.key[z] = None, !.value[z] = None, !.color[z] = BLACK,
              !.left[z] = Nil, !.right[z] = Nil, !.parent[z] = Nil,
              !.parent[Nil] = IF @ = z THEN Gone ELSE @,
              !.live = @ \ {z}]

Discarded(t, z) == IF Raised(t) THEN t ELSE Discard(t, z)

\* (mutant) the size is decremented before the missing key is reported
DeleteFound_CountFirst(t, node) ==
    IF node = Nil THEN Raise(CountGone(t), "KeyError")
    ELSE Discarded(_delete_node(t, node), node)

\* if node is nil: raise KeyError(key); self._delete_node(node)
DeleteFound(t, node) ==
    IF node = Nil THEN Raise(t, "KeyError")
    ELSE Discarded(_delete_node(t, node), node)

__delitem__(t, k) == DeleteFound(t, _search_node(t, k))

\* ------------------------------------------- deletion as the spec words it
\* y is z if z has at most one non-sentinel child, otherwise the in-order
\* successor of z
SplicedNode(t, z) ==
    IF t.left[z] = Nil \/ t.right[z] = Nil THEN z
    ELSE _minimum_node(t, t.right[z]).node

\* y's single child x, possibly the sentinel
OnlyChild(t, y) == IF t.left[y] # Nil THEN t.left[y] ELSE t.right[y]

\* if y was not z, copy y's key and value into z's slot
CopyInto(t, z, y) ==
    IF y = z THEN t ELSE [t EXCEPT !.key[z] = t.key[y], !.value[z] = t.value[y]]

\* splice y out by a transplant of x into y's slot, copy, decrement count
CopySplice(t, z, y) ==
    Spliced(CopyInto(_transplant(t, y, OnlyChild(t, y)), z, y),
            OnlyChild(t, y), t.color[y])

\* delete-fixup on x if y was BLACK; the node that goes is y
CopyDelete(t, z) ==
    Discarded(FixIfBlack(CopySplice(t, z, SplicedNode(t, z))), SplicedNode(t, z))

\* remove(key) -> Ok or NotFound
SpecRemove(t, k) ==
    IF _search_node(t, k) = Nil THEN Raise(t, "KeyError")
    ELSE CopyDelete(t, _search_node(t, k))

\* -------------------------------------------------- successor / predecessor
\* An exception is its type, the message text built into its argument (empty
\* when the argument is the key itself, as in KeyError(key)) and the key.
Exc(type, msg, k) == [out |-> type, msg |-> msg, val |-> k]

Ok(v) == [out |-> "ok", msg |-> "", val |-> v]

\* (mutant) the parent is taken without climbing
ClimbWhileRight_Once(t, node, y) == y

\* while y is not nil and node is y.right: node = y; y = y.parent
RECURSIVE ClimbWhileRight(_, _, _)
ClimbWhileRight(t, node, y) ==
    IF y # Nil /\ node = t.right[y] THEN ClimbWhileRight(t, y, t.parent[y])
    ELSE y

RECURSIVE ClimbWhileLeft(_, _, _)
ClimbWhileLeft(t, node, y) ==
    IF y # Nil /\ node = t.left[y] THEN ClimbWhileLeft(t, y, t.parent[y])
    ELSE y

\* if y is nil: raise KeyError("No successor for k"); return y.key
AncestorKey(t, k, y, msg) ==
    IF y = Nil THEN Exc("KeyError", msg, k) ELSE Ok(t.key[y])

SuccessorOf(t, k, node) ==
    IF node = Nil THEN Exc("KeyError", "", k)
    ELSE IF t.right[node] # Nil
    THEN Ok(t.key[_minimum_node(t, t.right[node]).node])
    ELSE AncestorKey(t, k, ClimbWhileRight(t, node, t.parent[node]),
                     "No successor for ")

successor(t, k) == SuccessorOf(t, k, _search_node(t, k))

\* (mutant) the boundary error carries the key, like the not-found error
PredecessorOf_KeyArg(t, k, node) ==
    IF node = Nil THEN Exc("KeyError", "", k)
    ELSE IF t.left[node] # Nil
    THEN Ok(t.key[_maximum_node(t, t.left[node]).node])
    ELSE AncestorKey(t, k, ClimbWhileLeft(t, node, t.parent[node]), "")

PredecessorOf(t, k, node) ==
    IF node = Nil THEN Exc("KeyError", "", k)
    ELSE IF t.left[node] # Nil
    THEN Ok(t.key[_maximum_node(t, t.left[node]).node])
    ELSE AncestorKey(t, k, ClimbWhileLeft(t, node, t.parent[node]),
                     "No predecessor for ")

predecessor(t, k) == PredecessorOf(t, k, _search_node(t, k))

\* --------------------------------------------------------------- iteration
\* stack.pop(); yield cur.key; cur = cur.right
RECURSIVE IterLoop(_, _, _, _)
IterPop(t, stack, out, c) ==
    IterLoop(t, SubSeq(stack, 1, Len(stack) - 1), t.right[c],
             Append(out, t.key[c]))

\* __iter__ run to exhaustion: the sequence of keys it yields.
IterLoop(t, stack, cur, out) ==
    IF stack = <<>> /\ cur = Nil THEN out
    ELSE IF cur # Nil THEN IterLoop(t, Append(stack, cur), t.left[cur], out)
    ELSE IterPop(t, stack, out, stack[Len(stack)])

\* (mutant) the key is yielded when the node is pushed, not when it is popped
RECURSIVE IterLoopPre(_, _, _, _)
IterLoopPre(t, stack, cur, out) ==
    IF stack = <<>> /\ cur = Nil THEN out
    ELSE IF cur # Nil
    THEN IterLoopPre(t, Append(stack, cur), t.left[cur], Append(out, t.key[cur]))
    ELSE IterLoopPre(t, SubSeq(stack, 1, Len(stack) - 1),
                     t.right[stack[Len(stack)]], out)

__iter__PreOrder(t) == IterLoopPre(t, <<>>, t.root, <<>>)

__iter__(t) == IterLoop(t, <<>>, t.root, <<>>)

\* list(self)
keys(t) == __iter__(t)

\* [self[key] for key in self]
values(t) == [i \in 1..Len(__iter__(t)) |-> __getitem__(t, __iter__(t)[i]).val]

\* [(key, self[key]) for key in self]
items(t) ==
    [i \in 1..Len(__iter__(t)) |->
        <<__iter__(t)[i], __getitem__(t, __iter__(t)[i]).val>>]

\* -------------------------------------------------------------- validation
\* assert cond, msg
Failed(msg) == [out |-> "AssertionError", msg |-> msg, bh |-> 0]

\* (mutant) the colour of the root is not checked
RootIsBlack_Skip(t, node) == TRUE

\* Property 2: if node is self._root: assert node.color == BLACK
RootIsBlack(t, node) == node = t.root => t.color[node] = BLACK

\* Property 4 and the value returned: the black height of the subtree, or
\* the first assertion that failed below (the left subtree is visited first)
JoinHeights(t, node, l, r) ==
    IF l.out # "ok" THEN l
    ELSE IF r.out # "ok" THEN r
    ELSE IF l.bh # r.bh THEN Failed("Black-height mismatch")
    ELSE [out |-> "ok", msg |-> "",
          bh |-> l.bh + (IF t.color[node] = BLACK THEN 1 ELSE 0)]

RECURSIVE dfs(_, _)
dfs(t, node) ==
    IF node = Nil THEN [out |-> "ok", msg |-> "", bh |-> 1]
    ELSE IF ~RootIsBlack(t, node) THEN Failed("Root is not black")
    ELSE IF t.color[node] = RED /\ t.color[t.left[node]] # BLACK
    THEN Failed("Red node has red left child")
    ELSE IF t.color[node] = RED /\ t.color[t.right[node]] # BLACK
    THEN Failed("Red node has red right child")
    ELSE IF t.left[node] # Nil /\ ~(t.key[t.left[node]] < t.key[node])
    THEN Failed("BST property violated (left child larger)")
    ELSE IF t.right[node] # Nil /\ ~(t.key[t.right[node]] > t.key[node])
    THEN Failed("BST property violated (right child smaller)")
    ELSE JoinHeights(t, node, dfs(t, t.left[node]), dfs(t, t.right[node]))

\* None, or the AssertionError of the first violation found
Verdict(r) == IF r.out = "ok" THEN Ok(None) ELSE Exc(r.out, r.msg, None)

validate(t) == IF t.root # Nil THEN Verdict(dfs(t, t.root)) ELSE Ok(None)

\* ---------------------------------------------------------- priority queue
\* python/lib/priority_queue.py.  _heap is a sequence of entries; the code's
\* index i is position i + 1 of the sequence.  _position maps each item to
\* its index (as the code counts it, from 0).  _counter is the next value of
\* itertools.count().  _sign is 1, or -1 for a max-heap.
Queue == [heap |-> heap, position |-> position, counter |-> counter,
          sign |-> sign, err |-> "none"]

\* PriorityQueue(max_heap=...)
NewQueue(max_heap) ==
    [heap |-> << >>, position |-> << >>, counter |-> 0,
     sign |-> IF max_heap THEN -1 ELSE 1, err |-> "none"]

\* self._heap[i]
At(q, i) == q.heap[i + 1]

\* (mutant) the entry has no insertion counter: ties fall to the item
EntryLess_NoCounter(a, b) ==
    \/ a.pri < b.pri
    \/ a.pri = b.pri /\ a.item > b.item

\* tuple comparison (signed priority, counter, item) < (..., ..., ...)
EntryLess(a, b) ==
    \/ a.pri < b.pri
    \/ a.pri = b.pri /\ a.cnt < b.cnt
    \/ a.pri = b.pri /\ a.cnt = b.cnt /\ a.item < b.item

\* (self._sign * priority, next(self._counter), item)
\* (mutant) the entry stores the priority without the sign
_entry_Unsigned(q, item, priority) ==
    [pri |-> priority, cnt |-> q.counter, item |-> item]

_entry(q, item, priority) ==
    [pri |-> q.sign * priority, cnt |-> q.counter, item |-> item]

_parent(idx) == (idx - 1) \div 2

_left(idx) == 2 * idx + 1

_right(idx) == 2 * idx + 2

\* self._position[item] = idx
SetPosition(q, item, idx) ==
    [q EXCEPT !.position =
        [x \in DOMAIN q.position \cup {item} |->
            IF x = item THEN idx ELSE q.position[x]]]

\* del self._position[item]
DelPosition(q, item) ==
    [q EXCEPT !.position = [x \in DOMAIN q.position \ {item} |-> q.position[x]]]

\* self._heap[i], self._heap[j] = self._heap[j], self._heap[i]
Exchange(q, i, j) ==
    [q EXCEPT !.heap = [@ EXCEPT ![i + 1] = q.heap[j + 1],
                                 ![j + 1] = q.heap[i + 1]]]

\* (mutant) only the first of the two swapped items gets its new index
Reindex_FirstOnly(q, i, j) == SetPosition(q, At(q, i).item, i)

\* the two assignments to _position after the exchange
Reindex(q, i, j) ==
    SetPosition(SetPosition(q, At(q, i).item, i), At(q, j).item, j)

_swap(q, i, j) == Reindex(Exchange(q, i, j), i, j)

RECURSIVE _sift_up(_, _)
_sift_up(q, idx) ==
    IF idx > 0 /\ EntryLess(At(q, idx), At(q, _parent(idx)))
    THEN _sift_up(_swap(q, idx, _parent(idx)), _parent(idx))
    ELSE q

\* smallest = left; if right < n and heap[right] < heap[left]: smallest = right
SmallerChild(q, idx) ==
    IF _right(idx) < Len(q.heap) /\ EntryLess(At(q, _right(idx)), At(q, _left(idx)))
    THEN _right(idx)
    ELSE _left(idx)

RECURSIVE _sift_down(_, _)
_sift_down(q, idx) ==
    IF _left(idx) < Len(q.heap)
       /\ EntryLess(At(q, SmallerChild(q, idx)), At(q, idx))
    THEN _sift_down(_swap(q, idx, SmallerChild(q, idx)), SmallerChild(q, idx))
    ELSE q

\* self._heap.append(entry), taking the counter value the entry was given
AppendEntry(q, entry) ==
    [q EXCEPT !.heap = Append(@, entry), !.counter = @ + 1]

\* idx = len(heap) - 1; _position[item] = idx; _sift_up(idx)
PlaceLast(q, item) ==
    _sift_up(SetPosition(q, item, Len(q.heap) - 1), Len(q.heap) - 1)

\* key is None: self._key = lambda x: x
_key(item) == item

\* if priority is None: priority = self._key(item)
PriorityOf(item, priority) == IF priority = None THEN _key(item) ELSE priority

\* (mutant) the entry is built, drawing a counter value, before the check for
\* a duplicate
push_EntryFirst(q, item, priority) ==
    IF item \in DOMAIN q.position
    THEN Raise([q EXCEPT !.counter = @ + 1], "ValueError")
    ELSE PlaceLast(AppendEntry(q, _entry(q, item, PriorityOf(item, priority))),
                   item)

push(q, item, priority) ==
    IF item \in DOMAIN q.position THEN Raise(q, "ValueError")
    ELSE PlaceLast(AppendEntry(q, _entry(q, item, PriorityOf(item, priority))),
                   item)

\* self._heap.pop()
DropLast(q) == [q EXCEPT !.heap = SubSeq(@, 1, Len(@) - 1)]

\* priority, counter, item = heap.pop(); del position[item]
TakeLast(q) == DelPosition(DropLast(q), At(q, Len(q.heap) - 1).item)

\* if self._heap: self._sift_down(0)
SettleRoot(q) == IF q.heap # << >> THEN _sift_down(q, 0) ELSE q

\* the item pop returns: the one taken from the end after the swap
Popped(q) ==
    IF q.heap = << >> THEN Exc("IndexError", "", None)
    ELSE Ok(At(_swap(q, 0, Len(q.heap) - 1), Len(q.heap) - 1).item)

\* pop: the queue as the call leaves it
pop(q) ==
    IF q.heap = << >> THEN Raise(q, "IndexError")
    ELSE SettleRoot(TakeLast(_swap(q, 0, Len(q.heap) - 1)))

\* (mutant) peek on an empty queue returns None instead of raising
peek_NoneIfEmpty(q) ==
    IF q.heap = << >> THEN Ok(None) ELSE Ok(At(q, 0).item)

peek(q) ==
    IF q.heap = << >> THEN Exc("IndexError", "", None) ELSE Ok(At(q, 0).item)

\* (mutant) the updated entry draws a fresh insertion counter value
Reprioritise_NewCounter(q, idx, signed_new) ==
    [q EXCEPT !.heap[idx + 1].pri = signed_new,
              !.heap[idx + 1].cnt = q.counter]

\* heap[idx] = (signed_new, old_counter, item)
Reprioritise(q, idx, signed_new) == [q EXCEPT !.heap[idx + 1].pri = signed_new]

\* if signed_new < old_priority: sift up, else: sift down
Resettle(q, idx, signed_new, old_priority) ==
    IF signed_new < old_priority THEN _sift_up(q, idx) ELSE _sift_down(q, idx)

UpdateAt(q, idx, signed_new) ==
    Resettle(Reprioritise(q, idx, signed_new), idx, signed_new, At(q, idx).pri)

\* (mutant) update of an item that is not in the queue inserts it
update_Upsert(q, item, new_priority) ==
    IF item \notin DOMAIN q.position THEN push(q, item, new_priority)
    ELSE UpdateAt(q, q.position[item], q.sign * new_priority)

update(q, item, new_priority) ==
    IF item \notin DOMAIN q.position THEN Raise(q, "KeyError")
    ELSE UpdateAt(q, q.position[item], q.sign * new_priority)

\* (mutant) the entry moved into the hole is only sifted down
SettleAt_DownOnly(q, idx) ==
    IF idx < Len(q.heap) THEN _sift_down(q, idx) ELSE q

\* if idx < len(heap): sift up, then sift down, from idx
SettleAt(q, idx) ==
    IF idx < Len(q.heap) THEN _sift_down(_sift_up(q, idx), idx) ELSE q

\* (mutant) removing the last entry of the array keeps its index entry
RemoveAt_KeepsIndex(q, item, idx, last) ==
    IF idx = last THEN DropLast(q)
    ELSE SettleAt(DelPosition(DropLast(_swap(q, idx, last)), item), idx)

RemoveAt(q, item, idx, last) ==
    IF idx = last THEN DelPosition(DropLast(q), item)
    ELSE SettleAt(DelPosition(DropLast(_swap(q, idx, last)), item), idx)

remove(q, item) ==
    IF item \notin DOMAIN q.position THEN Raise(q, "KeyError")
    ELSE RemoveAt(q, item, q.position[item], Len(q.heap) - 1)

\* len(pq)
Queue__len__(q) == Len(q.heap)

\* item in pq
Queue__contains__(q, item) == item \in DOMAIN q.position

\* bool(pq)
Queue__bool__(q) == q.heap # << >>

\* list(pq): the items in heap-array order
Queue__iter__(q) == [i \in 1..Len(q.heap) |-> q.heap[i].item]

\* ------------------------------------------------------------ state machine
\* res is what the last call returned or raised.
Res(op, k, r) == [op |-> op, key |-> k, out |-> r.out, msg |-> r.msg, val |-> r.val]

StartsAs(t) ==
    /\ key = t.key
    /\ value = t.value
    /\ color = t.color
    /\ left = t.left
    /\ right = t.right
    /\ parent = t.parent
    /\ root = t.root
    /\ size = t.size
    /\ live = t.live

\* RedBlackTree()
QueueStartsAs(q) ==
    /\ heap = q.heap
    /\ position = q.position
    /\ counter = q.counter
    /\ sign = q.sign
    /\ qref = << >>

Init ==
    /\ StartsAs(EmptyTree)
    /\ ref = << >>
    /\ res = Res("init", None, Ok(None))
    /\ budget = NoLimit
    /\ QueueStartsAs(NewQueue(FALSE))

\* RedBlackTree(items), for items whose keys come in the order ks: __init__
\* inserts them one by one
RECURSIVE BuildFrom(_, _, _)
BuildFrom(t, ks, i) ==
    IF i > Len(ks) THEN t
    ELSE BuildFrom(__setitem__(t, ks[i], 1), ks, i + 1)

Ascending == [i \in 1..TallKey |-> i]
Descending == [i \in 1..TallKey |-> TallKey + 1 - i]
\* 1, TallKey, 2, TallKey - 1, ...
OutsideIn == [i \in 1..TallKey |->
                 IF i % 2 = 1 THEN (i + 1) \div 2 ELSE TallKey + 1 - (i \div 2)]

TallOrders == {Ascending, Descending, OutsideIn}

InitTall ==
    /\ \E ks \in TallOrders : StartsAs(BuildFrom(EmptyTree, ks, 1))
    /\ ref = [k \in TallKeys |-> 1]
    /\ res = Res("set", None, Ok(None))
    /\ budget = MaxOps
    /\ QueueStartsAs(NewQueue(FALSE))

Becomes(t) ==
    /\ key' = t.key
    /\ value' = t.value
    /\ color' = t.color
    /\ left' = t.left
    /\ right' = t.right
    /\ parent' = t.parent
    /\ root' = t.root
    /\ size' = t.size
    /\ live' = t.live

Outcome(t) == IF Raised(t) THEN Exc(t.err, "", None) ELSE Ok(None)

TreeVars == <<key, value, color, left, right, parent, root, size, live>>

QueueVars == <<heap, position, counter, sign>>

\* rbt[k] = v, and reference[k] = v in lock-step
\* The call op left the tree as t and returned or raised.
Applied(op, t) == Becomes(t) /\ res' = Res(op, None, Outcome(t))

Set(k, v) ==
    /\ __contains__(Tree, k) \/ FreeIds(Tree) # {}
    /\ Applied("set", __setitem__(Tree, k, v))
    /\ ref' = [j \in DOMAIN ref \cup {k} |-> IF j = k THEN v ELSE ref[j]]

\* del rbt[k], and the reference forgets k in lock-step
Remove(k) ==
    /\ Applied("remove", __delitem__(Tree, k))
    /\ ref' = [j \in DOMAIN ref \ {k} |-> ref[j]]

\* (mutant) a read-only call resets the parent field of the sentinel
Query_ResetsSentinel(op, k, r) ==
    /\ res' = Res(op, k, r)
    /\ parent' = [parent EXCEPT ![Nil] = Nil]
    /\ UNCHANGED <<key, value, color, left, right, root, size, live, ref>>

\* the read-only operations
Query(op, k, r) ==
    /\ res' = Res(op, k, r)
    /\ UNCHANGED <<TreeVars, ref>>

\* the value returned, or KeyError(key)
Got(k, r) == IF r.out = "ok" THEN Ok(r.val) ELSE Exc(r.out, "", k)

DoGet(k) == Query("get", k, Got(k, __getitem__(Tree, k)))

DoContains(k) == Query("contains", k, Ok(__contains__(Tree, k)))

DoLen == Query("len", None, Ok(__len__(Tree)))

\* the key returned, or ValueError("Tree is empty")
Extreme(r) ==
    IF r.out = "ok" THEN Ok(r.val) ELSE Exc(r.out, "Tree is empty", None)

DoMinKey == Query("min_key", None, Extreme(min_key(Tree)))

DoMaxKey == Query("max_key", None, Extreme(max_key(Tree)))

DoSuccessor(k) == Query("successor", k, successor(Tree, k))

DoPredecessor(k) == Query("predecessor", k, predecessor(Tree, k))

DoIterate == Query("iter", None, Ok(__iter__(Tree)))

DoKeys == Query("keys", None, Ok(keys(Tree)))

DoValues == Query("values", None, Ok(values(Tree)))

DoItems == Query("items", None, Ok(items(Tree)))

DoValidate == Query("validate", None, validate(Tree))

\* node.color = c; rbt.validate()   (the test reaches into the tree)
PaintThenValidate(n, c) ==
    /\ n # Nil
    /\ Becomes(SetColor(Tree, n, c))
    /\ res' = Res("paint", key[n], validate(SetColor(Tree, n, c)))
    /\ UNCHANGED ref

\* One operation of a run; a run with a budget spends one unit of it.
Step(A) ==
    /\ budget # 0
    /\ A
    /\ budget' = IF budget = NoLimit THEN NoLimit ELSE budget - 1
    /\ UNCHANGED <<QueueVars, qref>>

Next ==
    \/ \E k \in Keys, v \in Values : Step(Set(k, v))
    \/ \E k \in Keys : Step(Remove(k))

Spec == Init /\ [][Next]_vars

NextQ ==
    \/ \E k \in QKeys : Step(Set(k, 1))
    \/ \E k \in QKeys : Step(Remove(k))
    \/ \E k \in QKeys : Step(DoGet(k))
    \/ \E k \in QKeys : Step(DoContains(k))
    \/ Step(DoLen)
    \/ Step(DoMinKey)
    \/ Step(DoMaxKey)
    \/ \E k \in QKeys : Step(DoSuccessor(k))
    \/ \E k \in QKeys : Step(DoPredecessor(k))
    \/ Step(DoIterate)
    \/ Step(DoKeys)
    \/ Step(DoValues)
    \/ Step(DoItems)
    \/ Step(DoValidate)

SpecQ == Init /\ [][NextQ]_vars

\* Runs of any length over DeepKeys from the empty tree, and runs of MaxOps
\* operations over TallKeys from a tall tree.
RunKeys == IF budget = NoLimit THEN DeepKeys ELSE TallKeys

NextDeep ==
    \/ \E k \in RunKeys : Step(Set(k, 1))
    \/ \E k \in RunKeys : Step(Remove(k))

SpecDeep == (Init \/ InitTall) /\ [][NextDeep]_vars

\* RedBlackTree(items) holding every key of Keys with value 1, then a run of
\* MaxOps set/remove operations
InOrder == [i \in 1..MaxKey |-> i]

InitFull ==
    /\ StartsAs(BuildFrom(EmptyTree, InOrder, 1))
    /\ ref = [k \in Keys |-> 1]
    /\ res = Res("set", None, Ok(None))
    /\ budget = MaxOps
    /\ QueueStartsAs(NewQueue(FALSE))

SpecFull == InitFull /\ [][Next]_vars

\* ------------------------------------------------- priority-queue runs
\* qref is the reference: the items in the queue with their priorities, in
\* the order they were pushed.
QueueBecomes(q) ==
    /\ heap' = q.heap
    /\ position' = q.position
    /\ counter' = q.counter
    /\ sign' = q.sign

\* The reference without item x.
RECURSIVE Without(_, _)
Without(s, x) ==
    IF s = << >> THEN << >>
    ELSE IF Head(s).item = x THEN Tail(s)
    ELSE <<Head(s)>> \o Without(Tail(s), x)

\* The item the reference expects on top: in min-mode the first pushed among
\* those of least priority, in max-mode among those of greatest priority.
RefBefore(a, b) == IF sign = 1 THEN a.pri < b.pri ELSE a.pri > b.pri

RefTopIndex ==
    CHOOSE i \in 1..Len(qref) :
        \A j \in 1..Len(qref) :
            j # i => ~RefBefore(qref[j], qref[i])
                     /\ (qref[j].pri = qref[i].pri => i < j)

RefTop == qref[RefTopIndex].item

\* The order in which the reference expects all its items to be popped:
\* by priority (least first in min-mode, greatest first in max-mode), and
\* by push order among equal priorities.
TopIndexOf(s) ==
    CHOOSE i \in 1..Len(s) :
        \A j \in 1..Len(s) :
            j # i => ~RefBefore(s[j], s[i]) /\ (s[j].pri = s[i].pri => i < j)

RECURSIVE RefOrder(_)
RefOrder(s) ==
    IF s = << >> THEN << >>
    ELSE <<s[TopIndexOf(s)].item>>
            \o RefOrder(CHOOSE rest \in {Without(s, s[TopIndexOf(s)].item)} :
                            TRUE)

\* [pq.pop() for _ in range(len(pq))]
RECURSIVE Drain(_)
Drain(q) ==
    IF q.heap = << >> THEN << >>
    ELSE <<Popped(q).val>> \o Drain(CHOOSE after \in {pop(q)} : TRUE)

\* The pushes a run may make: the insertion counter is capped.
PushCap == IF budget = NoLimit THEN MaxPush ELSE BigItem + BigOps

\* pq.push(item, priority), and the reference in lock-step
DoPush(item, priority) ==
    /\ item \in DOMAIN position \/ counter < PushCap
    /\ QueueBecomes(push(Queue, item, priority))
    /\ res' = Res("push", None, Outcome(push(Queue, item, priority)))
    /\ qref' = IF Raised(push(Queue, item, priority)) THEN qref
               ELSE Append(qref, [item |-> item,
                                  pri |-> PriorityOf(item, priority)])

\* pq.pop(); the reference drops the item it expects
DoPop ==
    /\ QueueBecomes(pop(Queue))
    /\ res' = Res("pop", None, Popped(Queue))
    /\ qref' = IF qref = << >> THEN qref ELSE Without(qref, RefTop)

DoPeek ==
    /\ res' = Res("peek", None, peek(Queue))
    /\ UNCHANGED <<QueueVars, qref>>

\* pq.update(item, priority); reference[item] = priority
DoUpdate(item, priority) ==
    /\ QueueBecomes(update(Queue, item, priority))
    /\ res' = Res("update", None, Outcome(update(Queue, item, priority)))
    /\ qref' = [i \in 1..Len(qref) |->
                  IF qref[i].item = item THEN [item |-> item, pri |-> priority]
                  ELSE qref[i]]

\* pq.remove(item); del reference[item]
DoRemove(item) ==
    /\ QueueBecomes(remove(Queue, item))
    /\ res' = Res("qremove", None, Outcome(remove(Queue, item)))
    /\ qref' = Without(qref, item)

\* One operation on the queue; a run with a budget spends one unit of it.
QStep(A) ==
    /\ budget # 0
    /\ A
    /\ budget' = IF budget = NoLimit THEN NoLimit ELSE budget - 1
    /\ UNCHANGED <<TreeVars, ref>>

RunItems == IF budget = NoLimit THEN Items ELSE BigItems

RunPris == IF budget = NoLimit THEN Pris ELSE BigPris

NextPQ ==
    \/ \E item \in RunItems, priority \in RunPris :
          QStep(DoPush(item, priority))
    \/ QStep(DoPop)
    \/ QStep(DoPeek)
    \/ \E item \in RunItems, priority \in RunPris :
          QStep(DoUpdate(item, priority))
    \/ \E item \in RunItems : QStep(DoRemove(item))

\* PriorityQueue() or PriorityQueue(max_heap=True)
InitPQ ==
    /\ StartsAs(EmptyTree)
    /\ ref = << >>
    /\ res = Res("init", None, Ok(None))
    /\ budget = NoLimit
    /\ \E max_heap \in BOOLEAN : QueueStartsAs(NewQueue(max_heap))

\* pq.extend(pairs): push the pairs one by one
RECURSIVE extend(_, _, _)
extend(q, pairs, i) ==
    IF i > Len(pairs) THEN q
    ELSE extend(push(q, pairs[i].item, pairs[i].pri), pairs, i + 1)

\* Items 1..BigItem with priorities that fall, that are all equal, and that
\* leave the last entry of the array less than entries of the other subtree.
Falling == [i \in 1..BigItem |-> [item |-> i, pri |-> BigItem + 1 - i]]

AllEqual == [i \in 1..BigItem |-> [item |-> i, pri |-> 2]]

\* 1, 5, 2, 6, 7, 3, 4, ...
Crossed ==
    [i \in 1..BigItem |->
        [item |-> i,
         pri |-> IF i = 1 THEN 1 ELSE IF i = 2 THEN 5 ELSE IF i = 3 THEN 2
                 ELSE IF i = 4 THEN 6 ELSE IF i = 5 THEN 7 ELSE i - 3]]

BigQueues == {Falling, AllEqual, Crossed}

InitBig ==
    /\ StartsAs(EmptyTree)
    /\ ref = << >>
    /\ res = Res("push", None, Ok(None))
    /\ budget = BigOps
    /\ \E max_heap \in BOOLEAN, pairs \in BigQueues :
          /\ heap = extend(NewQueue(max_heap), pairs, 1).heap
          /\ position = extend(NewQueue(max_heap), pairs, 1).position
          /\ counter = extend(NewQueue(max_heap), pairs, 1).counter
          /\ sign = extend(NewQueue(max_heap), pairs, 1).sign
          /\ qref = pairs

\* Runs of any length over Items from the empty queue, and runs of BigOps
\* operations over BigItems from a queue of BigItem entries.
SpecPQ == (InitPQ \/ InitBig) /\ [][NextPQ]_vars

\* The keys of test_validate_simple_tree, in the order it inserts them.
Scenario == <<10, 5, 15, 2, 7, 12, 20>>

ScenarioKeys == {Scenario[i] : i \in 1..Len(Scenario)}

\* Insertions of the scenario's keys in any order, validate(), and the
\* test's writes to the colour of the root and of root.left.left, each
\* followed by validate().  The test inserts only while the tree is intact;
\* a later write restores a colour it has spoilt.
NextValidate ==
    \/ \E k \in ScenarioKeys : validate(Tree) = Ok(None) /\ Step(Set(k, 1))
    \/ Step(DoValidate)
    \/ \E n \in {root, left[left[root]]}, c \in {RED, BLACK} :
          Step(PaintThenValidate(n, c))

SpecValidate == Init /\ [][NextValidate]_vars

\* ------------------------------------------------- what the tree looks like
\* The nodes reachable from the nodes of S through left and right links.
RECURSIVE Closure(_, _)
Closure(t, S) ==
    LET S2 == (S \cup {t.left[n] : n \in S} \cup {t.right[n] : n \in S}) \ {Nil}
    IN IF S2 = S \ {Nil} THEN S2 ELSE Closure(t, S2)

Reach == Closure(Tree, {root})

Under(n) == Closure(Tree, {n})

StoredKeys == {key[n] : n \in Reach}

RefKeys == DOMAIN ref

\* The numbers of BLACK real nodes on the paths from n down to the sentinel.
RECURSIVE BlackCounts(_)
BlackCounts(n) ==
    IF n = Nil THEN {0}
    ELSE {c + (IF color[n] = BLACK THEN 1 ELSE 0) :
             c \in BlackCounts(left[n]) \cup BlackCounts(right[n])}

\* A node written into the tree by hand, the way the test writes colours:
\* a new node with key k and colour c, linked under par on the given side,
\* or as the root when the tree is empty.
GraftNode(t, par, k, c) == CountNew(SetColor(NewNode(t, k, 1, par, k), k, c))

Grafted(t, par, side, k, c) ==
    IF par = Nil THEN SetRoot(GraftNode(t, par, k, c), k)
    ELSE IF side = "left" THEN SetLeft(GraftNode(t, par, k, c), par, k)
    ELSE SetRight(GraftNode(t, par, k, c), par, k)

DoGraft(par, side, k, c) ==
    /\ k \notin live
    /\ IF root = Nil THEN par = Nil /\ side = "left"
       ELSE /\ par \in Reach
            /\ side = "left" => left[par] = Nil
            /\ side = "right" => right[par] = Nil
    /\ Applied("graft", Grafted(Tree, par, side, k, c))
    /\ ref' = [j \in DOMAIN ref \cup {k} |-> 1]

\* Every binary tree over Keys with consistent child/parent links, any
\* placement of the keys and any colours, and validate() on each of them.
NextShapes ==
    \/ \E par \in Reach \cup {Nil}, side \in {"left", "right"},
          k \in Keys, c \in {RED, BLACK} : Step(DoGraft(par, side, k, c))
    \/ Step(DoValidate)

SpecShapes == Init /\ [][NextShapes]_vars

\* C1: after every step of a run of set/remove kept in lock-step with a
\* reference map, get(k) returns the reference value for every key of the
\* reference and raises KeyError for every other key, contains(k) is
\* reference membership and len() is the reference's size.
C1_MappingAgrees ==
    /\ \A k \in Keys :
          __getitem__(Tree, k) = IF k \in RefKeys
                                 THEN [out |-> "ok", val |-> ref[k]]
                                 ELSE [out |-> "KeyError", val |-> None]
    /\ \A k \in Keys : __contains__(Tree, k) <=> k \in RefKeys
    /\ __len__(Tree) = Cardinality(RefKeys)

C1_Witness ==
    /\ res.op = "remove" /\ res.out = "ok"
    /\ Cardinality(RefKeys) = 3
    /\ \E j, k \in RefKeys : ref[j] = 1 /\ ref[k] = 2

\* C2: after every completed set or remove, every key in a node's left
\* subtree is less than the node's key and every key in its right subtree is
\* greater.
C2_BSTOrdering ==
    \A n \in Reach :
        /\ \A m \in Under(left[n]) : key[m] < key[n]
        /\ \A m \in Under(right[n]) : key[m] > key[n]

C2_Witness ==
    /\ res.op = "remove" /\ res.out = "ok"
    /\ \E n \in Reach : Cardinality(Under(left[n])) >= 3
                        /\ Cardinality(Under(right[n])) >= 3

\* C3: after every completed set or remove, for every node all paths from
\* the node down to the sentinel hold the same number of BLACK nodes.
C3_BlackHeight == \A n \in Reach : Cardinality(BlackCounts(n)) = 1

\* a removal from a tall tree (black-height 3, at least TallKey - 1 keys)
\* whose fix-up pushed the missing BLACK up to the root, lowering the
\* black-height of the whole tree
C3_Witness ==
    /\ res.op = "remove" /\ res.out = "ok"
    /\ budget # NoLimit
    /\ Cardinality(Reach) >= TallKey - 2
    /\ BlackCounts(root) = {2}

\* C4: after every completed set or remove, no RED node has a RED child.
C4_NoRedRed ==
    \A n \in Reach :
        color[n] = RED => color[left[n]] = BLACK /\ color[right[n]] = BLACK

\* a set in a run from the empty tree that left a RED node with two real
\* (BLACK) children below a BLACK parent
C4_Witness ==
    /\ res.op = "set" /\ res.out = "ok"
    /\ budget = NoLimit
    /\ \E n \in Reach : color[n] = RED /\ left[n] # Nil /\ right[n] # Nil

\* C5: after every completed set or remove, the tree is empty (the root is
\* the sentinel) or the root is BLACK.
C5_RootBlack == root = Nil \/ color[root] = BLACK

C5_Witness ==
    /\ res.op = "remove" /\ res.out = "ok"
    /\ root # Nil /\ color[root] = BLACK
    /\ left[root] = Nil /\ right[root] = Nil

\* C6: after every completed set or remove, the size returned by len() is
\* the number of real nodes reachable from the root; once every inserted key
\* has been removed, len() is 0 and the root is the sentinel.
C6_SizeIsNodeCount ==
    /\ __len__(Tree) = Cardinality(Reach)
    /\ RefKeys = {} => __len__(Tree) = 0 /\ root = Nil

C6_Witness == res.op = "remove" /\ res.out = "ok" /\ RefKeys = {}

Least(S) == CHOOSE x \in S : \A y \in S : x <= y

Greatest(S) == CHOOSE x \in S : \A y \in S : x >= y

RECURSIVE SortedSeq(_)
SortedSeq(S) ==
    IF S = {} THEN << >> ELSE <<Least(S)>> \o SortedSeq(S \ {Least(S)})

\* C7: after any run of set/remove, a full iteration yields every stored key
\* exactly once in strictly ascending order: the sorted list of the
\* reference map's keys.
C7_IterationSorted ==
    /\ __iter__(Tree) = SortedSeq(RefKeys)
    /\ res.op = "iter" => res.val = SortedSeq(RefKeys)

C7_Witness ==
    /\ res.op = "iter"
    /\ Len(res.val) = 4
    /\ left[root] # Nil /\ right[left[root]] # Nil

\* C8: for every stored key k that is not the maximum, successor(k) returns
\* the smallest stored key greater than k; for every stored key k that is not
\* the minimum, predecessor(k) returns the largest stored key less than k.
C8_Neighbours ==
    /\ \A k \in StoredKeys :
          LET above == {j \in StoredKeys : j > k}
              below == {j \in StoredKeys : j < k}
          IN /\ above # {} => successor(Tree, k) = Ok(Least(above))
             /\ below # {} => predecessor(Tree, k) = Ok(Greatest(below))
    /\ (res.op = "successor" /\ res.key \in StoredKeys
           /\ res.key # Greatest(StoredKeys))
          => res.out = "ok" /\ res.val = Least({j \in StoredKeys : j > res.key})
    /\ (res.op = "predecessor" /\ res.key \in StoredKeys
           /\ res.key # Least(StoredKeys))
          => res.out = "ok" /\ res.val = Greatest({j \in StoredKeys : j < res.key})

\* successor answered by climbing two levels up to the root
C8_Witness ==
    /\ res.op = "successor" /\ res.out = "ok"
    /\ LET n == _search_node(Tree, res.key)
       IN /\ right[n] = Nil
          /\ n # root /\ parent[n] # root
          /\ res.val = key[root]

\* C9 as stated: successor on the maximum key and predecessor on the minimum
\* key fail with a kind of error other than the kind raised for a key that is
\* not stored.
C9_DistinctErrorKinds ==
    StoredKeys # {} =>
      LET hi == Greatest(StoredKeys)
          lo == Least(StoredKeys)
      IN /\ successor(Tree, hi).out # "ok"
         /\ predecessor(Tree, lo).out # "ok"
         /\ \A j \in QKeys \ StoredKeys :
               /\ successor(Tree, hi).out # successor(Tree, j).out
               /\ predecessor(Tree, lo).out # predecessor(Tree, j).out

\* C9 (amended): successor on the maximum key and predecessor on the minimum
\* key raise KeyError, the same exception type as for a key that is not
\* stored; the boundary error's argument is the message "No successor for k"
\* or "No predecessor for k", the not-found error's argument is the key k.
C9_SameTypeOtherArgument ==
    /\ StoredKeys # {} =>
          /\ successor(Tree, Greatest(StoredKeys))
                = Exc("KeyError", "No successor for ", Greatest(StoredKeys))
          /\ predecessor(Tree, Least(StoredKeys))
                = Exc("KeyError", "No predecessor for ", Least(StoredKeys))
    /\ \A j \in QKeys \ StoredKeys :
          /\ successor(Tree, j) = Exc("KeyError", "", j)
          /\ predecessor(Tree, j) = Exc("KeyError", "", j)
    /\ (res.op \in {"successor", "predecessor"} /\ res.out # "ok")
          => /\ res.out = "KeyError"
             /\ res.msg = "" <=> res.key \notin StoredKeys

C9_Witness ==
    /\ res.op = "predecessor" /\ res.out = "KeyError"
    /\ res.msg = "No predecessor for "
    /\ Cardinality(StoredKeys) = 3
    /\ res.key = Least(StoredKeys)

\* C10: remove(k) for a key k that is not stored raises KeyError and changes
\* nothing: root, size and every node's key, value, colour and links stay as
\* they were.
C10_RemoveAbsentNoChange ==
    [][(res'.op = "remove" /\ \E k \in Keys \ StoredKeys : Step(Remove(k)))
          => (res'.out = "KeyError" /\ UNCHANGED TreeVars)]_vars

\* a failed remove on a tree whose sentinel carries a parent left by an
\* earlier removal
C10_Witness ==
    /\ res.op = "remove" /\ res.out = "KeyError"
    /\ Cardinality(StoredKeys) = 3
    /\ parent[Nil] # Nil

\* C11: set(k, v2) on a tree that already stores k changes only the value
\* held for k: afterwards get(k) returns v2, len() is as before, and every
\* link, every colour, the root and every other node's key and value are as
\* before.
C11_OverwriteOnlyValue ==
    [][\A k \in StoredKeys, v \in Values :
          (res'.op = "set" /\ Step(Set(k, v)))
             => /\ __getitem__(Tree, k)' = [out |-> "ok", val |-> v]
                /\ __len__(Tree)' = __len__(Tree)
                /\ value' = [value EXCEPT ![_search_node(Tree, k)] = v]
                /\ UNCHANGED <<key, color, left, right, parent, root, size,
                               live>>]_vars

\* the first operation on the full tree was a set (of a key that is stored,
\* as all are) and it replaced the value 1 by another one
C11_Witness ==
    /\ res.op = "set" /\ budget = MaxOps - 1
    /\ Cardinality(StoredKeys) = MaxKey
    /\ \E k \in RefKeys : ref[k] # 1 /\ __getitem__(Tree, k).val = ref[k]

\* C12: on an empty tree (fresh, or emptied by removing every key) min_key()
\* and max_key() raise ValueError and get(k) raises KeyError for every key k,
\* and none of these calls changes the tree.
C12_EmptyTreeErrors ==
    /\ [](RefKeys = {} =>
             /\ min_key(Tree).out = "ValueError"
             /\ max_key(Tree).out = "ValueError"
             /\ \A k \in QKeys : __getitem__(Tree, k).out = "KeyError")
    /\ [][(RefKeys = {} /\ res'.op \in {"min_key", "max_key", "get"})
             => /\ res'.out = IF res'.op = "get" THEN "KeyError"
                                                 ELSE "ValueError"
                /\ UNCHANGED TreeVars]_vars

\* max_key() raised on an empty tree (removing the last key leaves the very
\* state of a fresh tree, the sentinel's fields included)
C12_Witness ==
    /\ res.op = "max_key" /\ res.out = "ValueError" /\ res.msg = "Tree is empty"
    /\ RefKeys = {} /\ root = Nil

\* C13: on every non-empty tree reached by set/remove operations, min_key()
\* returns the smallest stored key and max_key() the largest.
C13_MinMax ==
    /\ RefKeys # {} =>
          /\ min_key(Tree) = [out |-> "ok", val |-> Least(RefKeys)]
          /\ max_key(Tree) = [out |-> "ok", val |-> Greatest(RefKeys)]
    /\ (res.op = "min_key" /\ RefKeys # {})
          => res.out = "ok" /\ res.val = Least(RefKeys)
    /\ (res.op = "max_key" /\ RefKeys # {})
          => res.out = "ok" /\ res.val = Greatest(RefKeys)

\* min_key() answered from a node three levels below the root
C13_Witness ==
    /\ res.op = "min_key" /\ res.out = "ok"
    /\ left[left[left[root]]] # Nil
    /\ res.val = key[left[left[left[root]]]]

\* The number of real nodes on the longest path from n down to a leaf.
RECURSIVE Height(_)
Height(n) ==
    IF n = Nil THEN 0 ELSE 1 + Larger(Height(left[n]), Height(right[n]))

\* C14: in every tree reached by set/remove operations that stores n keys,
\* the height h satisfies h <= 2*log2(n+1), that is 2^h <= (n+1)^2.
C14_HeightBound ==
    2 ^ Height(root) <= (Cardinality(RefKeys) + 1) * (Cardinality(RefKeys) + 1)

\* a removal that left a tree of height 5
C14_Witness ==
    /\ res.op = "remove" /\ res.out = "ok"
    /\ budget # NoLimit /\ budget # MaxOps
    /\ Height(root) = 5

\* The tree of the scenario: the keys inserted in the test's order.
IsScenarioTree == StartsAs(BuildFrom(EmptyTree, Scenario, 1))

ReadOnlyOps == {"get", "contains", "len", "min_key", "max_key", "successor",
                "predecessor", "iter", "keys", "values", "items", "validate"}

C17_MinFirstStable ==
    /\ []((sign = 1 /\ qref # << >>)
             => peek(Queue) = Ok(RefTop) /\ Popped(Queue) = Ok(RefTop))
    /\ [][(sign = 1 /\ qref # << >> /\ res'.op = "pop")
             => /\ res'.out = "ok" /\ res'.val = RefTop
                /\ DOMAIN position' = DOMAIN position \ {RefTop}
                /\ Len(heap') = Len(heap) - 1]_vars
    /\ [][(sign = 1 /\ qref # << >> /\ res'.op = "peek")
             => /\ res'.out = "ok" /\ res'.val = RefTop
                /\ UNCHANGED QueueVars]_vars

\* pop() on a big queue returned item 1, the first pushed, and every item
\* that stays has that same priority 2
C17_Witness ==
    /\ sign = 1 /\ budget # NoLimit
    /\ res.op = "pop" /\ res.out = "ok" /\ res.val = 1
    /\ Len(qref) = BigItem - 1
    /\ \A i \in 1..Len(qref) : qref[i].pri = 2

\* C18: after every completed push, pop, update or remove, for every index
\* i > 0 of the heap array the entry (signed priority, insertion counter) at
\* the parent index (i-1)/2 is not greater than the entry at i.
C18_HeapOrder ==
    \A i \in 1..(Len(heap) - 1) :
        LET up == heap[((i - 1) \div 2) + 1]
            down == heap[i + 1]
        IN up.pri < down.pri \/ (up.pri = down.pri /\ up.cnt <= down.cnt)

\* the first operation on a big queue removed an item two levels down, and
\* the last entry of the array, moved into the hole, went up one level
C18_Witness ==
    /\ sign = 1 /\ budget = BigOps - 1
    /\ res.op = "qremove" /\ res.out = "ok"
    /\ Len(heap) = BigItem - 1
    /\ heap[2].item = BigItem

\* C19: after every completed push, pop, update or remove, the item->index
\* map agrees with the heap array: its keys are the items of the array, no
\* item is twice in the array, and the map sends the item at index i to i.
C19_PositionsAgree ==
    /\ DOMAIN position = {heap[i].item : i \in 1..Len(heap)}
    /\ \A i, j \in 1..Len(heap) : heap[i].item = heap[j].item => i = j
    /\ \A i \in 1..Len(heap) : position[heap[i].item] = i - 1

\* the first operation on a big queue of equal priorities gave the item at
\* the end of the array the least priority, and it went up to index 0
C19_Witness ==
    /\ sign = 1 /\ budget = BigOps - 1
    /\ res.op = "update" /\ res.out = "ok"
    /\ heap[1].item = BigItem /\ position[BigItem] = 0
    /\ qref[1].pri = 2

\* C20: push(item, priority) for an item that is in the queue raises
\* ValueError and leaves the heap array, the item->index map (and with them
\* the item's priority) and the insertion counter as they were.
C20_DuplicatePushNoChange ==
    [][(res'.op = "push"
          /\ \E item \in DOMAIN position, priority \in RunPris :
                QStep(DoPush(item, priority)))
          => (res'.out = "ValueError" /\ UNCHANGED QueueVars)]_vars

\* a push was refused on a queue of three items that had seen all the pushes
\* a run may make
C20_Witness ==
    /\ res.op = "push" /\ res.out = "ValueError"
    /\ Len(heap) = MaxItem /\ counter = MaxPush

\* C21: pop() and peek() on an empty queue (fresh, or emptied by pops and
\* removes) raise IndexError and leave the queue empty and unchanged.
C21_EmptyQueueErrors ==
    /\ [](qref = << >> =>
             /\ Popped(Queue).out = "IndexError"
             /\ peek(Queue).out = "IndexError"
             /\ pop(Queue) = Raise(Queue, "IndexError"))
    /\ [][(qref = << >> /\ res'.op \in {"pop", "peek"})
             => /\ res'.out = "IndexError"
                /\ heap' = << >> /\ position' = << >>
                /\ UNCHANGED QueueVars]_vars

\* peek() raised on a queue that had been filled and emptied again
C21_Witness ==
    /\ res.op = "peek" /\ res.out = "IndexError"
    /\ heap = << >> /\ counter = MaxPush

\* C22: update(item, p) and remove(item) for an item that is not in the
\* queue raise KeyError and leave the heap array and the item->index map
\* unchanged.
C22_AbsentItemNoChange ==
    [][(res'.op \in {"update", "qremove"}
          /\ \E item \in RunItems \ DOMAIN position :
                \/ \E priority \in RunPris : QStep(DoUpdate(item, priority))
                \/ QStep(DoRemove(item)))
          => (res'.out = "KeyError" /\ UNCHANGED QueueVars)]_vars

\* update was refused on a queue that holds two items
C22_Witness ==
    /\ res.op = "update" /\ res.out = "KeyError"
    /\ Len(heap) = 2 /\ budget = NoLimit

\* C23: in a queue built with max_heap=True, pop() removes and returns the
\* item with the largest current priority, the earliest pushed among those
\* of equal largest priority.
C23_MaxFirstStable ==
    /\ []((sign = -1 /\ qref # << >>)
             => /\ Popped(Queue) = Ok(RefTop)
                /\ \A i \in 1..Len(qref) :
                      /\ qref[i].pri <= qref[RefTopIndex].pri
                      /\ qref[i].pri = qref[RefTopIndex].pri
                            => RefTopIndex <= i)
    /\ [][(sign = -1 /\ qref # << >> /\ res'.op = "pop")
             => /\ res'.out = "ok" /\ res'.val = RefTop
                /\ DOMAIN position' = DOMAIN position \ {RefTop}
                /\ Len(heap') = Len(heap) - 1]_vars

\* pop() on a big max-mode queue returned item 1, the first pushed, and
\* every item that stays has that same priority 2
C23_Witness ==
    /\ sign = -1 /\ budget # NoLimit
    /\ res.op = "pop" /\ res.out = "ok" /\ res.val = 1
    /\ Len(qref) = BigItem - 1
    /\ \A i \in 1..Len(qref) : qref[i].pri = 2

\* C24: after update(item, p) on a present item, whether p is lower than,
\* equal to or higher than the old priority, the item is popped according to
\* p: draining the queue yields the reference's items by priority and, among
\* equal priorities, by original push order; the set of items and len() are
\* unchanged by the update.
C24_UpdateReranks ==
    /\ []((res.op = "update" /\ res.out = "ok")
             => Drain(Queue) = RefOrder(qref))
    /\ [][(res'.op = "update"
              /\ \E item \in DOMAIN position, priority \in RunPris :
                    QStep(DoUpdate(item, priority)))
              => /\ res'.out = "ok"
                 /\ DOMAIN position' = DOMAIN position
                 /\ Len(heap') = Len(heap)
                 /\ \E item \in DOMAIN position :
                       \A i \in 1..Len(qref) :
                          /\ qref'[i].item = qref[i].item
                          /\ qref[i].item # item => qref'[i] = qref[i]
                          /\ heap'[position'[qref[i].item] + 1].pri
                                = sign * qref'[i].pri]_vars

\* In the queue of falling priorities item 3 was updated down to priority 1,
\* the priority of the last pushed item 7, and is now on top ahead of it
C24_Witness ==
    /\ sign = 1 /\ budget = BigOps - 1
    /\ res.op = "update" /\ res.out = "ok"
    /\ heap[1].item = 3 /\ heap[1].pri = 1
    /\ qref[BigItem].pri = 1 /\ qref[3].pri = 1
    /\ Drain(Queue)[1] = 3 /\ Drain(Queue)[2] = BigItem

\* C25: in lock-step with a reference item->priority map, `item in pq`
\* equals reference membership, len(pq) the reference's size, bool(pq) is
\* true iff the reference is non-empty, and iterating pq yields exactly the
\* reference's items, each once; remove(item) deletes exactly that item and
\* keeps every other item with its priority.
C25_AgreesWithReference ==
    /\ [](/\ \A item \in Items \cup BigItems :
               Queue__contains__(Queue, item)
                  <=> \E i \in 1..Len(qref) : qref[i].item = item
          /\ Queue__len__(Queue) = Len(qref)
          /\ Queue__bool__(Queue) <=> qref # << >>
          /\ Len(Queue__iter__(Queue)) = Len(qref)
          /\ \A i \in 1..Len(qref) :
               \E j \in 1..Len(heap) :
                  /\ Queue__iter__(Queue)[j] = qref[i].item
                  /\ heap[j].pri = sign * qref[i].pri)
    /\ [][\A item \in DOMAIN position :
             (res'.op = "qremove" /\ QStep(DoRemove(item)))
                => /\ res'.out = "ok"
                   /\ DOMAIN position' = DOMAIN position \ {item}
                   /\ Len(heap') = Len(heap) - 1
                   /\ \A other \in DOMAIN position \ {item} :
                         heap'[position'[other] + 1]
                            = heap[position[other] + 1]]_vars

\* remove(1) took the top of a big queue of equal priorities: the entry
\* moved into the hole is the last one of the array
C25_Witness ==
    /\ sign = 1 /\ budget = BigOps - 1
    /\ res.op = "qremove" /\ res.out = "ok"
    /\ ~Queue__contains__(Queue, 1)
    /\ Queue__len__(Queue) = BigItem - 1
    /\ Queue__iter__(Queue)[1] = 2
    /\ \A i \in 1..Len(qref) : qref[i].pri = 2

\* C26: in no execution of set or remove on a reachable tree is _rotate_left
\* called on a node whose right child is the sentinel, or _rotate_right on a
\* node whose left child is the sentinel: the RuntimeError is never raised.
\* Were it raised, it would be raised before any pointer is modified.
C26_RotationsDefined ==
    /\ res.out # "RuntimeError"
    /\ \A x \in Reach :
          /\ right[x] = Nil => _rotate_left(Tree, x) = Raise(Tree, "RuntimeError")
          /\ left[x] = Nil => _rotate_right(Tree, x) = Raise(Tree, "RuntimeError")

\* One remove on a tall tree rotated at the root: the node that was the root
\* is still in the tree, below another node
C26_Witness ==
    /\ budget = MaxOps - 1
    /\ res.op = "remove" /\ res.out = "ok"
    /\ \E ks \in TallOrders, k \in TallKeys :
          /\ Tree = __delitem__(BuildFrom(EmptyTree, ks, 1), k)
          /\ root # BuildFrom(EmptyTree, ks, 1).root
          /\ BuildFrom(EmptyTree, ks, 1).root \in Reach

\* C27 as stated: when remove(k) finds z with two non-sentinel children, the
\* successor y's key and value are copied into z's node, which stays in the
\* tree, and y's own node is spliced out.
C27_SuccessorCopied ==
    [][\A z \in Reach :
          (/\ res'.op = "remove" /\ res'.out = "ok"
           /\ key[z] \notin DOMAIN ref'
           /\ left[z] # Nil /\ right[z] # Nil)
             => /\ z \in live'
                /\ key'[z] = key[_minimum_node(Tree, right[z]).node]
                /\ value'[z] = value[_minimum_node(Tree, right[z]).node]
                /\ color'[z] = color[z]
                /\ _minimum_node(Tree, right[z]).node \notin live']_vars

\* z with two children, its successor y, and the tree as _delete_node has it
\* when the splice is done and the fix-up is still to run: y is in z's slot
\* of z's parent, over z's children, with z's colour and its own key and
\* value.
InPlaceOf(t, z, y) ==
    /\ t.parent[y] = parent[z]
    /\ IF parent[z] = Nil THEN t.root = y
       ELSE IF z = left[parent[z]] THEN t.left[parent[z]] = y
       ELSE t.right[parent[z]] = y
    /\ t.left[y] = left[z] /\ t.parent[left[z]] = y
    /\ right[z] # y => t.right[y] = right[z] /\ t.parent[right[z]] = y
    /\ right[z] = y => t.right[y] = right[y]
    /\ t.color[y] = color[z]
    /\ t.key[y] = key[y] /\ t.value[y] = value[y]
    /\ \A n \in Reach \ {z} : t.left[n] # z /\ t.right[n] # z

\* C27: when remove(k) finds z with two non-sentinel children, the node of
\* the in-order successor y is linked into z's position with z's colour,
\* keeping its own key and value, and it is z's own node that is spliced out
\* of the tree.
C27_SuccessorRelinked ==
    [][\A z \in Reach :
          (/\ res'.op = "remove" /\ res'.out = "ok"
           /\ key[z] \notin DOMAIN ref'
           /\ left[z] # Nil /\ right[z] # Nil)
             => /\ z \notin live'
                /\ _minimum_node(Tree, right[z]).node \in live'
                /\ key'[_minimum_node(Tree, right[z]).node]
                     = key[_minimum_node(Tree, right[z]).node]
                /\ value'[_minimum_node(Tree, right[z]).node]
                     = value[_minimum_node(Tree, right[z]).node]
                /\ InPlaceOf(SpliceOut(Tree, z).t, z,
                             _minimum_node(Tree, right[z]).node)]_vars

\* remove(2) on the tree built from 1, 2, 3, 4 took the root, which had two
\* children: node 3, its successor, is the root now, over nodes 1 and 4
C27_Witness ==
    /\ budget = MaxOps - 1
    /\ res.op = "remove" /\ res.out = "ok"
    /\ 2 \notin live /\ 2 \notin DOMAIN ref
    /\ root = 3 /\ key[root] = 3
    /\ left[root] = 1 /\ right[root] = 4

\* The tree below node n, position by position: key, value and colour of n
\* and the same of its left and right subtrees; the sentinel is the empty
\* tuple.
RECURSIVE Shape(_, _)
Shape(t, n) ==
    IF n = Nil THEN << >>
    ELSE <<t.key[n], t.value[n], t.color[n],
           Shape(t, t.left[n]), Shape(t, t.right[n])>>

\* C28: for every reachable tree and every stored key, the code's remove
\* (the successor node y relinked into z's position with z's colour) and the
\* spec's remove (y's key and value copied into z, y spliced out) give, after
\* fix-up, trees equal position by position in shape, colour, key and value,
\* of equal size; the node that goes is z in the one and y in the other.
C28_RelinkEqualsCopy ==
    [][(res'.op = "remove" /\ res'.out = "ok")
          => \E k \in DOMAIN ref \ DOMAIN ref' :
                /\ ~Raised(SpecRemove(Tree, k))
                /\ Shape(Tree', root')
                     = Shape(SpecRemove(Tree, k), SpecRemove(Tree, k).root)
                /\ size' = SpecRemove(Tree, k).size
                /\ live \ live' = {_search_node(Tree, k)}
                /\ live \ SpecRemove(Tree, k).live
                     = {SplicedNode(Tree, _search_node(Tree, k))}]_vars

\* One remove on a tall tree took a node with two children whose successor
\* was BLACK, so that both removals ran the fix-up, and the survivor differs
C28_Witness ==
    /\ budget = MaxOps - 1
    /\ res.op = "remove" /\ res.out = "ok"
    /\ \E ks \in TallOrders, k \in TallKeys :
          /\ Tree = __delitem__(BuildFrom(EmptyTree, ks, 1), k)
          /\ BuildFrom(EmptyTree, ks, 1).color[
                 SplicedNode(BuildFrom(EmptyTree, ks, 1),
                             _search_node(BuildFrom(EmptyTree, ks, 1), k))]
                = BLACK
          /\ SpecRemove(BuildFrom(EmptyTree, ks, 1), k).live # live

\* C29: validate() detects every violation: on every tree over a bounded key
\* set with consistent child/parent links and arbitrary colours and key
\* placement, validate() returns without raising only if the root is BLACK,
\* no RED node has a RED child, all paths to the sentinel hold equally many
\* BLACK nodes, and every key in a node's left subtree is less than its key
\* and every key in its right subtree greater.
C29_ValidateDetectsAll ==
    (res.op = "validate" /\ res.out = "ok")
       => /\ root = Nil \/ color[root] = BLACK
          /\ \A n \in Reach :
                /\ color[n] = RED
                      => color[left[n]] = BLACK /\ color[right[n]] = BLACK
                /\ Cardinality(BlackCounts(n)) = 1
                /\ \A m \in Under(left[n]) : key[m] < key[n]
                /\ \A m \in Under(right[n]) : key[m] > key[n]

\* x is the root, or x.parent is a node of the tree one of whose child slots
\* holds x.
ParentHolds(t, x) ==
    \/ x = t.root
    \/ /\ t.parent[x] \in Closure(t, {t.root})
       /\ t.left[t.parent[x]] = x \/ t.right[t.parent[x]] = x

\* ParentHolds at every evaluation of the loop condition of _fix_delete,
\* from the entry with x on.
RECURSIVE HeldThroughout(_, _)
HeldAfter(s) == HeldThroughout(s.t, s.x)

HeldThroughout(t, x) ==
    /\ ParentHolds(t, x)
    /\ IF Raised(t) \/ ~(x # t.root /\ t.color[x] = BLACK) THEN TRUE
       ELSE HeldAfter(FixDeleteBody(t, x))

\* On tree t the removal of k hands the sentinel to the fix-up, the
\* sentinel's parent field held a stale node before, and the first pass of
\* the loop moves x up to a node that is not the root.
StaleThenFixed(t, k) ==
    /\ t.parent[Nil] # Nil
    /\ SpliceOut(t, _search_node(t, k)).y_original_color = BLACK
    /\ SpliceOut(t, _search_node(t, k)).x = Nil
    /\ SpliceOut(t, _search_node(t, k)).t.root # Nil
    /\ SpliceOut(t, _search_node(t, k)).t.parent[Nil] # t.parent[Nil]
    /\ FixDeleteBody(SpliceOut(t, _search_node(t, k)).t, Nil).x
         # FixDeleteBody(SpliceOut(t, _search_node(t, k)).t, Nil).t.root
    /\ FixDeleteBody(SpliceOut(t, _search_node(t, k)).t, Nil).x # Nil

\* C30: whenever _fix_delete is entered with x, the sentinel included, and x
\* is not the root, x.parent is the real node one of whose child slots holds
\* x, whatever the sentinel's parent field held before the removal; and this
\* stays so at every evaluation of the condition of the fix-up loop.
C30_ParentOfXHolds ==
    [][\A z \in Reach :
          (/\ res'.op = "remove" /\ res'.out = "ok"
           /\ key[z] \notin DOMAIN ref'
           /\ SpliceOut(Tree, z).y_original_color = BLACK)
             => HeldThroughout(SpliceOut(Tree, z).t, SpliceOut(Tree, z).x)]_vars

\* The second remove on a tall tree entered the fix-up with the sentinel as
\* x, below a real parent, while the sentinel's parent field still held
\* another node from the first remove, and the loop ran more than once
C30_Witness ==
    /\ budget = MaxOps - 2
    /\ res.op = "remove" /\ res.out = "ok"
    /\ \E ks \in TallOrders, j \in TallKeys, k \in TallKeys :
          /\ j # k
          /\ Tree = __delitem__(__delitem__(BuildFrom(EmptyTree, ks, 1), j), k)
          /\ StaleThenFixed(__delitem__(BuildFrom(EmptyTree, ks, 1), j), k)

\* The tree a set of the new key k hands to _fix_insert: the new RED node is
\* linked and counted.
BeforeFix(t, k, v) ==
    CountNew(Attach(NewNode(t, k, v, Descend(t, Nil, t.root, k).node,
                            NewId(t, k)),
                    Descend(t, Nil, t.root, k).node, k, NewId(t, k)))

\* The numbers of BLACK real nodes on the paths from n down to the sentinel
\* in tree t.
RECURSIVE BlackCountsIn(_, _)
BlackCountsIn(t, n) ==
    IF n = Nil THEN {0}
    ELSE {c + (IF t.color[n] = BLACK THEN 1 ELSE 0) :
             c \in BlackCountsIn(t, t.left[n]) \cup BlackCountsIn(t, t.right[n])}

\* The keys below n in tree t, left subtree first, then n, then the right
\* subtree: strictly ascending exactly when every key in a node's left
\* subtree is less than the node's key and every key in its right subtree
\* greater.
RECURSIVE KeysInOrder(_, _)
KeysInOrder(t, n) ==
    IF n = Nil THEN << >>
    ELSE KeysInOrder(t, t.left[n]) \o <<t.key[n]>> \o KeysInOrder(t, t.right[n])

Ascends(s) == \A i \in 1..(Len(s) - 1) : s[i] < s[i + 1]

\* Ordering and black-height hold for the whole of t, z is RED, and a RED
\* node with a RED child is z's parent with z.
RepairableAt(t, z) ==
    /\ t.color[z] = RED
    /\ Cardinality(BlackCountsIn(t, t.root)) = 1
    /\ \A ks \in {KeysInOrder(t, t.root)} : Ascends(ks)
    /\ \A n \in Closure(t, {t.root}) :
          /\ (t.color[n] = RED /\ t.color[t.left[n]] = RED)
                => t.left[n] = z
          /\ (t.color[n] = RED /\ t.color[t.right[n]] = RED)
                => t.right[n] = z
    /\ z \in Closure(t, {t.root})

\* RepairableAt at every evaluation of the loop condition of _fix_insert
RECURSIVE RepairableThroughout(_, _)
RepairableThroughout(t, z) ==
    /\ RepairableAt(t, z)
    /\ IF Raised(t) \/ t.color[t.parent[z]] # RED THEN TRUE
       ELSE \A s \in {FixInsertBody(t, z)} : RepairableThroughout(s.t, s.z)

\* The fix-up of set(k) on t passes through the loop body at least twice.
ClimbsTwice(t, k) ==
    /\ BeforeFix(t, k, 1).color[BeforeFix(t, k, 1).parent[NewId(t, k)]] = RED
    /\ \E s \in {FixInsertBody(BeforeFix(t, k, 1), NewId(t, k))} :
          s.t.color[s.t.parent[s.z]] = RED

\* C31: at every evaluation of the condition of the insert fix-up loop,
\* ordering and equal black-height hold for the whole tree, z is RED, and
\* the only pair of adjacent RED nodes that can exist is z with its parent.
C31_FixInsertInvariant ==
    [][(res'.op = "set" /\ res'.out = "ok")
          => \A k \in DOMAIN ref' \ DOMAIN ref :
                \A t \in {BeforeFix(Tree, k, ref'[k])} :
                   RepairableThroughout(t, NewId(Tree, k))]_vars

\* The keys 1, 2, ..., k were set in ascending order, and the fix-up of the
\* last set evaluated its loop condition three times or more: after the
\* first pass z still had a RED parent
C31_Witness ==
    /\ budget = NoLimit
    /\ res.op = "set" /\ res.out = "ok"
    /\ \E k \in DeepKeys :
          \E t \in {BuildFrom(EmptyTree, [i \in 1..(k - 1) |-> i], 1)} :
             /\ Tree = __setitem__(t, k, 1)
             /\ ClimbsTwice(t, k)

\* w: the other child of x.parent
SiblingOf(t, x) ==
    IF x = t.left[t.parent[x]] THEN t.right[t.parent[x]]
    ELSE t.left[t.parent[x]]

\* The tree as Case 1 leaves it, on the side x is on
AfterCase1(t, x) ==
    IF x = t.left[t.parent[x]] THEN DeleteCase1Left(t, x)
    ELSE DeleteCase1Right(t, x)

\* In this pass of the loop the sibling, recomputed after Case 1 when Case 1
\* runs, is a real BLACK node.
SiblingSound(t, x) ==
    \A t1 \in {AfterCase1(t, x)} :
       /\ ~Raised(t1)
       /\ SiblingOf(t1, x) # Nil
       /\ SiblingOf(t1, x) \in Closure(t1, {t1.root})
       /\ t1.color[SiblingOf(t1, x)] = BLACK
       /\ t.color[SiblingOf(t, x)] = RED => SiblingOf(t1, x) # SiblingOf(t, x)

\* SiblingSound in every pass of the loop of _fix_delete
RECURSIVE SiblingSoundThroughout(_, _)
SiblingSoundThroughout(t, x) ==
    IF Raised(t) \/ ~(x # t.root /\ t.color[x] = BLACK) THEN TRUE
    ELSE /\ SiblingSound(t, x)
         /\ \A s \in {FixDeleteBody(t, x)} : SiblingSoundThroughout(s.t, s.x)

\* C32: in the delete fix-up, whenever Case 1 (sibling w RED) executes, the
\* sibling recomputed after the rotation is a real BLACK node, so that Cases
\* 2, 3 and 4 always work on a BLACK sibling that is not the sentinel.
C32_SiblingBlackAndReal ==
    [][\A z \in Reach :
          (/\ res'.op = "remove" /\ res'.out = "ok"
           /\ key[z] \notin DOMAIN ref'
           /\ SpliceOut(Tree, z).y_original_color = BLACK)
             => \A s \in {SpliceOut(Tree, z)} :
                   SiblingSoundThroughout(s.t, s.x)]_vars

\* The removal of k from tree t enters the fix-up loop with a RED sibling.
EntersCase1(t, k) ==
    \E s \in {SpliceOut(t, _search_node(t, k))} :
       /\ s.y_original_color = BLACK
       /\ s.x # s.t.root /\ s.t.color[s.x] = BLACK
       /\ s.t.color[SiblingOf(s.t, s.x)] = RED

\* One remove on a tall tree ran Case 1
C32_Witness ==
    /\ budget = MaxOps - 1
    /\ res.op = "remove" /\ res.out = "ok"
    /\ \E ks \in TallOrders, k \in TallKeys :
          \E t \in {BuildFrom(EmptyTree, ks, 1)} :
             /\ Tree = __delitem__(t, k)
             /\ EntersCase1(t, k)

\* y: the uncle of z
UncleOf(t, z) ==
    IF t.parent[z] = t.left[t.parent[t.parent[z]]]
    THEN t.right[t.parent[t.parent[z]]]
    ELSE t.left[t.parent[t.parent[z]]]

\* The tree and z as Case 2 leaves them, on the side z.parent is on
AfterCase2(t, z) ==
    IF t.parent[z] = t.left[t.parent[t.parent[z]]]
    THEN InsertCase2Left(t, z) ELSE InsertCase2Right(t, z)

\* A rotation is the only step of the fix-up that writes a link.
LinksOf(t) == <<t.left, t.right, t.parent, t.root>>

\* The rotations of one pass of the loop: none in Case 1, one for Case 2 if
\* it changes the links, one for Case 3.
RotationsInPass(t, z) ==
    IF t.color[UncleOf(t, z)] = RED
    THEN IF LinksOf(FixInsertBody(t, z).t) = LinksOf(t) THEN 0 ELSE 1
    ELSE (IF LinksOf(AfterCase2(t, z).t) = LinksOf(t) THEN 0 ELSE 1)
         + (IF LinksOf(FixInsertBody(t, z).t) = LinksOf(AfterCase2(t, z).t)
            THEN 0 ELSE 1)

\* The rotations of the whole loop of _fix_insert from (t, z) on
RECURSIVE RotationsFrom(_, _)
RotationsFrom(t, z) ==
    IF Raised(t) \/ t.color[t.parent[z]] # RED THEN 0
    ELSE RotationsInPass(t, z)
         + RotationsFrom((CHOOSE s \in {FixInsertBody(t, z)} : TRUE).t,
                         (CHOOSE s \in {FixInsertBody(t, z)} : TRUE).z)

\* Every pass that takes the Case 3 branch (uncle BLACK) leaves z with a
\* parent that is not RED: the loop condition is false at its next
\* evaluation.
RECURSIVE Case3IsLast(_, _)
Case3IsLast(t, z) ==
    IF Raised(t) \/ t.color[t.parent[z]] # RED THEN TRUE
    ELSE \A s \in {FixInsertBody(t, z)} :
            /\ ~Raised(s.t)
            /\ t.color[UncleOf(t, z)] # RED
                  => /\ s.t.color[s.t.parent[s.z]] = BLACK
                     /\ LinksOf(s.t) # LinksOf(t)
            /\ Case3IsLast(s.t, s.z)

\* C33: in the insert fix-up, after the recolouring and rotation of Case 3
\* (left or mirrored) z's parent is BLACK, so the loop condition is false at
\* its next evaluation and Case 3 is the last pass; a single set makes at
\* most two rotations.
C33_Case3EndsLoop ==
    [][(res'.op = "set" /\ res'.out = "ok")
          => \A k \in DOMAIN ref' \ DOMAIN ref :
                \A t \in {BeforeFix(Tree, k, ref'[k])} :
                   /\ Case3IsLast(t, NewId(Tree, k))
                   /\ RotationsFrom(t, NewId(Tree, k)) <= 2]_vars

\* The keys 1, 2, ..., k but for one key j were set in ascending order, then
\* j was set and its fix-up rotated twice, in Case 2 and in Case 3
C33_Witness ==
    /\ budget = NoLimit
    /\ res.op = "set" /\ res.out = "ok"
    /\ \E k \in DeepKeys, j \in DeepKeys :
          \E t \in {BuildFrom(EmptyTree,
                               [i \in 1..(k - 1) |->
                                   IF i < j THEN i ELSE i + 1], 1)} :
             /\ j < k
             /\ Tree = __setitem__(t, j, 1)
             /\ RotationsFrom(BeforeFix(t, j, 1), NewId(t, j)) = 2

\* C34: at every step of every set and remove, the passes of the fix-up
\* loops included, the sentinel stays BLACK, holds no key or value and has
\* itself as left and as right; the only field of the sentinel ever written
\* with a new value is its parent.
C34_SentinelIntact ==
    /\ [](/\ color[Nil] = BLACK
          /\ key[Nil] = None /\ value[Nil] = None
          /\ left[Nil] = Nil /\ right[Nil] = Nil)
    /\ [][(res'.op = "remove" /\ res'.out = "ok")
             => \A k \in DOMAIN ref \ DOMAIN ref' :
                   ~__delitem__(Tree, k).nil_written]_vars
    /\ [][(res'.op = "set" /\ res'.out = "ok")
             => \A k \in DOMAIN ref' :
                   ~__setitem__(Tree, k, ref'[k]).nil_written]_vars

\* One remove on a tall tree handed the sentinel to the fix-up as x, the
\* loop ran with x the sentinel, and the sentinel's parent is now a node of
\* the tree
C34_Witness ==
    /\ budget = MaxOps - 1
    /\ res.op = "remove" /\ res.out = "ok"
    /\ parent[Nil] \in Reach
    /\ \E ks \in TallOrders, k \in TallKeys :
          \E t \in {BuildFrom(EmptyTree, ks, 1)} :
             /\ Tree = __delitem__(t, k)
             /\ t.parent[Nil] # parent[Nil]
             /\ \E s \in {SpliceOut(t, _search_node(t, k))} :
                   /\ s.y_original_color = BLACK
                   /\ s.x = Nil /\ s.t.root # Nil

\* Climbing parent links from n arrives at the root within fuel steps.
RECURSIVE ClimbsToRoot(_, _)
ClimbsToRoot(n, fuel) ==
    IF n = root THEN TRUE
    ELSE IF n = Nil \/ fuel = 0 THEN FALSE
    ELSE ClimbsToRoot(parent[n], fuel - 1)

\* C35: after every completed set or remove the root's parent is the
\* sentinel, every real node other than the root is the left or the right
\* child, not both, of the node its parent field names and of no other node,
\* no node has the root as a child, and so the nodes reachable from the root
\* form a tree in which climbing parent links leads through ancestors to
\* the root.
C35_LinksAgree ==
    /\ root # Nil => parent[root] = Nil
    /\ \A m \in Reach : left[m] # root /\ right[m] # root
    /\ \A n \in Reach \ {root} :
          /\ parent[n] \in Reach
          /\ (left[parent[n]] = n) # (right[parent[n]] = n)
          /\ \A m \in Reach : (left[m] = n \/ right[m] = n) => m = parent[n]
          /\ n \in Under(parent[n])
          /\ ClimbsToRoot(n, Cardinality(Reach))
    /\ Reach = live
    /\ Cardinality(Reach) = size

\* One remove on a tall tree took a node with two children whose successor
\* was not its right child, so that the successor was given both subtrees
\* of the removed node and their parent links
C35_Witness ==
    /\ budget = MaxOps - 1
    /\ res.op = "remove" /\ res.out = "ok"
    /\ \E ks \in TallOrders, k \in TallKeys :
          \E t \in {BuildFrom(EmptyTree, ks, 1)} :
             /\ Tree = __delitem__(t, k)
             /\ \E z \in {_search_node(t, k)} :
                   /\ t.left[z] # Nil /\ t.right[z] # Nil
                   /\ t.left[t.right[z]] # Nil
                   /\ parent[t.left[z]] = _minimum_node(t, t.right[z]).node
                   /\ parent[t.right[z]] \in Reach

\* The number of parent links between n and the root of t, or more than
\* any depth when the climb does not arrive within fuel links.
RECURSIVE DepthIn(_, _, _)
DepthIn(t, n, fuel) ==
    IF n = t.root THEN 0
    ELSE IF fuel = 0 THEN Gone
    ELSE 1 + DepthIn(t, t.parent[n], fuel - 1)

DepthOf(t, n) == DepthIn(t, n, MaxNodes)

\* The descent for k from cur leaves its while loop within fuel iterations.
RECURSIVE DescentEnds(_, _, _, _)
DescentEnds(t, cur, k, fuel) ==
    IF cur = Nil \/ t.key[cur] = k THEN TRUE
    ELSE IF fuel = 0 THEN FALSE
    ELSE IF k < t.key[cur] THEN DescentEnds(t, t.left[cur], k, fuel - 1)
    ELSE DescentEnds(t, t.right[cur], k, fuel - 1)

\* The loop of _fix_insert exits within fuel passes: a pass through Case 1
\* leaves z strictly closer to the root, any other pass leaves the loop
\* condition false.
RECURSIVE InsertFixEnds(_, _, _)
InsertFixEnds(t, z, fuel) ==
    IF Raised(t) \/ t.color[t.parent[z]] # RED THEN TRUE
    ELSE IF fuel = 0 THEN FALSE
    ELSE \A s \in {FixInsertBody(t, z)} :
            /\ IF t.color[UncleOf(t, z)] = RED
               THEN DepthOf(s.t, s.z) < DepthOf(t, z)
               ELSE s.t.color[s.t.parent[s.z]] # RED
            /\ InsertFixEnds(s.t, s.z, fuel - 1)

\* The loop condition of _fix_delete
DoubleBlack(t, x) == x # t.root /\ t.color[x] = BLACK

\* The loop of _fix_delete exits within fuel passes: Case 2 leaves x strictly
\* closer to the root than it found it, Cases 3 and 4 leave the loop
\* condition false, and so does any pass that ran Case 1.
RECURSIVE DeleteFixEnds(_, _, _)
DeleteFixEnds(t, x, fuel) ==
    IF Raised(t) \/ ~DoubleBlack(t, x) THEN TRUE
    ELSE IF fuel = 0 THEN FALSE
    ELSE \A a \in {AfterCase1(t, x)} : \A s \in {FixDeleteBody(t, x)} :
            /\ ~Raised(s.t)
            /\ IF /\ a.color[a.left[SiblingOf(a, x)]] = BLACK
                  /\ a.color[a.right[SiblingOf(a, x)]] = BLACK
               THEN DepthOf(s.t, s.x) < DepthOf(a, x)
               ELSE ~DoubleBlack(s.t, s.x)
            /\ t.color[SiblingOf(t, x)] = RED => ~DoubleBlack(s.t, s.x)
            /\ DeleteFixEnds(s.t, s.x, fuel - 1)

\* C36: every set and every remove terminates: the descent for the key
\* exits within as many iterations as the tree has nodes, and the insert
\* fix-up loop and the delete fix-up loop exit within as many passes as z,
\* or x, is deep, every pass that does not end its loop leaving z or x
\* strictly closer to the root.
C36_LoopsTerminate ==
    [][/\ (res'.op = "set" /\ res'.out = "ok")
            => \A k \in DOMAIN ref' :
                  /\ DescentEnds(Tree, root, k, size)
                  /\ k \notin DOMAIN ref
                       => \A t \in {BeforeFix(Tree, k, ref'[k])} :
                             InsertFixEnds(t, NewId(Tree, k),
                                           DepthOf(t, NewId(Tree, k)))
       /\ (res'.op = "remove" /\ res'.out = "ok")
            => \A z \in Reach :
                  key[z] \notin DOMAIN ref'
                     => /\ DescentEnds(Tree, root, key[z], size)
                        /\ \A s \in {SpliceOut(Tree, z)} :
                              s.y_original_color = BLACK
                                 => DeleteFixEnds(s.t, s.x, DepthOf(s.t, s.x))]_vars

\* The removal of k from tree t goes twice through the loop of _fix_delete,
\* the first time through Case 2 with x a right child.
ClimbsInDelete(t, k) ==
    \E s \in {SpliceOut(t, _search_node(t, k))} :
       /\ s.y_original_color = BLACK
       /\ DoubleBlack(s.t, s.x)
       /\ s.x = s.t.right[s.t.parent[s.x]]
       /\ \E n \in {FixDeleteBody(s.t, s.x)} :
             /\ n.x = s.t.parent[s.x]
             /\ DoubleBlack(n.t, n.x)

\* One remove on a tall tree moved x up by Case 2 and went on in the loop
C36_Witness ==
    /\ budget = MaxOps - 1
    /\ res.op = "remove" /\ res.out = "ok"
    /\ \E ks \in TallOrders, k \in TallKeys :
          \E t \in {BuildFrom(EmptyTree, ks, 1)} :
             /\ Tree = __delitem__(t, k)
             /\ ClimbsInDelete(t, k)

====
